---- MODULE Spec2Model ----
(***************************************************************************)
(* Planner backend: the task and backlog routes and the ordering of their  *)
(* rows.  A task row is (id, user_id, date, title, note, is_completed,     *)
(* order); a backlog row is (id, user_id, date, detail, order).  Every     *)
(* route handler is one action; `last` holds the response of the request   *)
(* that was served last.                                                   *)
(***************************************************************************)
EXTENDS Integers, FiniteSets, Sequences, TLC

\* ------------------------------------------------------------------ bounds
\* MaxRows: rows ever inserted (tasks and backlog items together);
\* MaxOrder: largest order value a row is let to reach.
MaxRows == 3
MaxOrder == 3
\* ScenarioRows, ScenarioOrder: the same two bounds for the runs on one date
\* of one owner.
ScenarioRows == 4
ScenarioOrder == 4
\* FieldRows: rows ever inserted in the runs that try the kinds of update
\* request; MaxToday: the last day the clock reaches.
FieldRows == 2
\* AuthRows: rows ever inserted in the runs on the tokens of the requests
AuthRows == 2
\* MaxUids: the uids that the identity service knows
MaxUids == 3
MaxToday == 2
\* AccountRows: rows ever inserted in the runs on the users' accounts
AccountRows == 1
\* MaxSubs: the subscription ids that the billing provider issues
MaxSubs == 2

Users == {1, 2}
\* Owner 1 keeps tasks and a backlog, owner 2 a backlog only.
TaskUsers == {1}
Dates == {1, 2}
Texts == {""}
\* The texts of the runs that try the kinds of update request
Words == {"", "w"}
OrderInputs == (0 - 1) .. (MaxRows + 1)

VARIABLES users, tasks, backlogs, notes, nextTaskId, nextBacklogId, nextNoteId,
          today, last, sess

\* The notes table and its id sequence
noteVars == <<notes, nextNoteId>>

vars == <<users, tasks, backlogs, noteVars, nextTaskId, nextBacklogId, today, last, sess>>

\* The requests in flight (one database session each)
Sessions == {1, 2}

Idle == [pc |-> "idle"]

RowsInserted == (nextTaskId - 1) + (nextBacklogId - 1) + (nextNoteId - 1)

\* The creates that have run their bulk UPDATE, or their existence check, and
\* not yet committed
InFlight ==
    Cardinality({s \in Sessions : sess[s].pc \in {"create_task", "create_backlog", "insert_note"}})

\* The part of the state space a run explores: at most `rows` rows inserted
\* or about to be, and no order above `order`
Within(rows, order) ==
    /\ RowsInserted + InFlight <= rows
    /\ \A t \in tasks : t.order <= order
    /\ \A b \in backlogs : b.order <= order

\* ------------------------------------------------------------------ helpers
\* A response: the route that served the request and the branch it took, the
\* order the request named, the status code, the error detail and, for a
\* request that succeeded, the id of the row it was about.
NoResponse == [op |-> "none", id |-> 0, mode |-> "none", req |-> 0,
               status |-> 0, detail |-> ""]

Response(op, id, mode, req, status, detail) ==
    [op |-> op, id |-> id, mode |-> mode, req |-> req,
     status |-> status, detail |-> detail]

\* The sequences that list the rows of S by increasing order: what
\* query.order_by(order).all() may return (rows of equal order come in an
\* order the database chooses).
SortedByOrder(S) ==
    {s \in [1 .. Cardinality(S) -> S] :
        /\ \A i, j \in 1 .. Cardinality(S) : i # j => s[i] # s[j]
        /\ \A i, j \in 1 .. Cardinality(S) : i < j => s[i].order <= s[j].order}

\* for idx, t in enumerate(rows, start=1): t.order = idx
Enumerated(s) == {[s[i] EXCEPT !.order = i] : i \in DOMAIN s}

\* ------------------------------------------------------------------ tasks
TaskGroup(S, u, d) == {t \in S : t.user_id = u /\ t.date = d}

\* The shift loop with the upper end of the downward range left out
ShiftedOrderStrict(t_order, current_order, new_order) ==
    IF current_order < new_order
    THEN IF current_order < t_order /\ t_order < new_order
         THEN t_order - 1 ELSE t_order
    ELSE IF new_order <= t_order /\ t_order < current_order
         THEN t_order + 1 ELSE t_order

\* The shift loop of an order update: the new order of another row of the
\* group, of order t_order, when the moved row goes from current_order to
\* new_order.
ShiftedOrder(t_order, current_order, new_order) ==
    IF current_order < new_order
    THEN IF current_order < t_order /\ t_order <= new_order
         THEN t_order - 1 ELSE t_order
    ELSE IF new_order <= t_order /\ t_order < current_order
         THEN t_order + 1 ELSE t_order

\* No clamp: the requested order is taken as it is
ClampOrderNone(new_order, others) == new_order

\* max_order = len(others) + 1; new_order is lowered to it
ClampOrder(new_order, others) ==
    IF new_order > Cardinality(others) + 1 THEN Cardinality(others) + 1 ELSE new_order

\* The validation with the bound off by one
InvalidOrderZero(new_order) == new_order < 0

\* new_order is None or new_order < 1 (None is not among the inputs)
InvalidOrder(new_order) == new_order < 1

\* The shift that passes over completed tasks
TasksShiftedIncompleteOnly(S, u, d) ==
    {IF t.user_id = u /\ t.date = d /\ ~t.is_completed
     THEN [t EXCEPT !.order = t.order + 1] ELSE t : t \in S}

\* UPDATE tasks SET order = order + 1 WHERE user_id = u AND date = d
TasksShifted(S, u, d) ==
    {IF t.user_id = u /\ t.date = d THEN [t EXCEPT !.order = t.order + 1] ELSE t : t \in S}

\* The lookup that leaves out the owner
TaskOfAny(u, id) == {t \in tasks : t.id = id}

\* start / end of get_tasks left out (None)
NoDate == 0

\* GET /tasks/: the lists that the query may return
GetTasks(u, start, end) ==
    SortedByOrder({t \in tasks :
                      /\ t.user_id = u
                      /\ (start # NoDate /\ end # NoDate) => (start <= t.date /\ t.date <= end)})

\* db.query(Task).filter(Task.id == task_id, Task.user_id == user_id)
TaskOf(u, id) == {t \in tasks : t.id = id /\ t.user_id = u}

\* POST /tasks/
CreateTask(u, d, title, note, done) ==
    /\ LET shifted == TasksShifted(tasks, u, d)
           new_task == [id |-> nextTaskId, user_id |-> u, date |-> d, title |-> title,
                        note |-> note, is_completed |-> done, order |-> 1]
       IN  tasks' = shifted \cup {new_task}
    /\ nextTaskId' = nextTaskId + 1
    /\ last' = Response("create_task", nextTaskId, "create", 0, 200, "")
    /\ UNCHANGED <<noteVars, users, backlogs, nextBacklogId, today, sess>>

\* The group check that finds every group in every request
MatchedGroupsAll(groups, update_fields) == DOMAIN groups

\* The group check that finds no group
MatchedGroupsNone(groups, update_fields) == {}

\* The title/note branch that also sends the task to the front
TaskTextBranchFront(task, upd) ==
    (tasks \ {task})
    \cup {[task EXCEPT
             !.title = IF "title" \in DOMAIN upd THEN upd.title ELSE @,
             !.note = IF "note" \in DOMAIN upd THEN upd.note ELSE @,
             !.order = 1]}

\* The field groups of an update request
TaskGroups == [date |-> {"date"}, order |-> {"order"}, text |-> {"title", "note"},
               completed |-> {"is_completed"}]

MatchedGroups(groups, update_fields) ==
    {g \in DOMAIN groups : update_fields \cap groups[g] # {}}

\* The date branch that sends a completed task to the end of the new date and
\* an incomplete one to the front
TaskDateBranchByFlag(task, new_date, old_seq) ==
    LET old_day == {old_seq[i] : i \in DOMAIN old_seq}
        new_day == {t \in tasks : t.user_id = task.user_id /\ t.date = new_date
                                  /\ t.id # task.id}
        rest == (tasks \ {task}) \ (old_day \cup new_day)
    IN  IF task.is_completed
        THEN rest \cup Enumerated(old_seq) \cup new_day
                  \cup {[task EXCEPT !.date = new_date, !.order = Cardinality(new_day) + 1]}
        ELSE rest \cup Enumerated(old_seq)
                  \cup {[t EXCEPT !.order = t.order + 1] : t \in new_day}
                  \cup {[task EXCEPT !.date = new_date, !.order = 1]}

\* update_task, date branch: the rows after task moved to new_date, with
\* old_seq the rows left on the old date as the query returned them
TaskDateBranch(task, new_date, old_seq) ==
    LET old_day == {old_seq[i] : i \in DOMAIN old_seq}
        new_day == {t \in tasks : t.user_id = task.user_id /\ t.date = new_date
                                  /\ t.id # task.id}
        rest == (tasks \ {task}) \ (old_day \cup new_day)
    IN  rest \cup Enumerated(old_seq)
             \cup {[t EXCEPT !.order = t.order + 1] : t \in new_day}
             \cup {[task EXCEPT !.date = new_date, !.order = 1]}

\* update_task, order branch (new_order >= 1)
TaskOrderBranch(task, requested) ==
    LET same_day == TaskGroup(tasks, task.user_id, task.date) \ {task}
        new_order == ClampOrder(requested, same_day)
        current_order == task.order
    IN  (tasks \ (same_day \cup {task}))
        \cup {[t EXCEPT !.order = ShiftedOrder(t.order, current_order, new_order)]
                 : t \in same_day}
        \cup {[task EXCEPT !.order = new_order]}

\* update_task, title/note branch
TaskTextBranch(task, upd) ==
    (tasks \ {task})
    \cup {[task EXCEPT
             !.title = IF "title" \in DOMAIN upd THEN upd.title ELSE @,
             !.note = IF "note" \in DOMAIN upd THEN upd.note ELSE @]}

\* The is_completed branch with the move to the front done as the order
\* branch does it: only the tasks before the task go up
TaskCompletedBranchFront(task, new_status) ==
    LET same_day == TaskGroup(tasks, task.user_id, task.date) \ {task}
        current_order == task.order
    IN  (tasks \ (same_day \cup {task}))
        \cup (IF new_status
              THEN {[t EXCEPT !.order = IF t.order > current_order
                                        THEN t.order - 1 ELSE t.order] : t \in same_day}
                   \cup {[task EXCEPT !.is_completed = new_status,
                                      !.order = Cardinality(same_day) + 1]}
              ELSE {[t EXCEPT !.order = IF t.order < current_order
                                        THEN t.order + 1 ELSE t.order] : t \in same_day}
                   \cup {[task EXCEPT !.is_completed = new_status, !.order = 1]})

\* The is_completed branch that sends a completed task to the end and leaves
\* the others where they are
TaskCompletedBranchNoShift(task, new_status) ==
    LET same_day == TaskGroup(tasks, task.user_id, task.date) \ {task}
    IN  (tasks \ (same_day \cup {task}))
        \cup (IF new_status
              THEN same_day
                   \cup {[task EXCEPT !.is_completed = new_status,
                                      !.order = Cardinality(same_day) + 1]}
              ELSE {[t EXCEPT !.order = t.order + 1] : t \in same_day}
                   \cup {[task EXCEPT !.is_completed = new_status, !.order = 1]})

\* update_task, is_completed branch
TaskCompletedBranch(task, new_status) ==
    LET same_day == TaskGroup(tasks, task.user_id, task.date) \ {task}
        current_order == task.order
    IN  (tasks \ (same_day \cup {task}))
        \cup (IF new_status
              THEN {[t EXCEPT !.order = IF t.order > current_order
                                        THEN t.order - 1 ELSE t.order] : t \in same_day}
                   \cup {[task EXCEPT !.is_completed = new_status,
                                      !.order = Cardinality(same_day) + 1]}
              ELSE {[t EXCEPT !.order = t.order + 1] : t \in same_day}
                   \cup {[task EXCEPT !.is_completed = new_status, !.order = 1]})

\* PATCH /tasks/{task_id}
UpdateTask(u, id, upd) ==
    LET found == TaskOf(u, id)
        update_fields == DOMAIN upd
        req == upd.order
    IN
    /\ UNCHANGED <<noteVars, users, backlogs, nextTaskId, nextBacklogId, today, sess>>
    /\ IF found = {}
       THEN /\ last' = Response("update_task", 0, "lookup", 0, 404, "Task not found")
            /\ UNCHANGED tasks
       ELSE LET task == CHOOSE t \in found : TRUE IN
         IF Cardinality(MatchedGroups(TaskGroups, update_fields)) > 1
         THEN /\ last' = Response("update_task", 0, "conflict", 0, 400,
                   "Only one type of update is allowed per request (order, title/note, or is_completed).")
              /\ UNCHANGED tasks
         ELSE IF "date" \in update_fields
         THEN /\ IF upd.date # task.date
                 THEN \E old_seq \in SortedByOrder(TaskGroup(tasks, u, task.date) \ {task}) :
                          tasks' = TaskDateBranch(task, upd.date, old_seq)
                 ELSE UNCHANGED tasks
              /\ last' = Response("update_task", id, "date", 0, 200, "")
         ELSE IF "order" \in update_fields
         THEN IF InvalidOrder(upd.order)
              THEN /\ last' = Response("update_task", 0, "order", req, 400,
                                       "Order must be 1 or greater")
                   /\ UNCHANGED tasks
              ELSE /\ tasks' = TaskOrderBranch(task, upd.order)
                   /\ last' = Response("update_task", id, "order", req, 200, "")
         ELSE IF {"title", "note"} \cap update_fields # {}
         THEN /\ tasks' = TaskTextBranch(task, upd)
              /\ last' = Response("update_task", id, "text", 0, 200, "")
         ELSE IF "is_completed" \in update_fields
         THEN /\ tasks' = TaskCompletedBranch(task, upd.is_completed)
              /\ last' = Response("update_task", id, "completed", 0, 200, "")
         ELSE /\ UNCHANGED tasks
              /\ last' = Response("update_task", id, "empty", 0, 200, "")

\* DELETE /tasks/{task_id}
DeleteTask(u, id) ==
    LET found == TaskOf(u, id) IN
    /\ UNCHANGED <<noteVars, users, backlogs, nextTaskId, nextBacklogId, today, sess>>
    /\ IF found = {}
       THEN /\ last' = Response("delete_task", 0, "lookup", 0, 404, "Task not found")
            /\ UNCHANGED tasks
       ELSE LET task == CHOOSE t \in found : TRUE
                remaining == TaskGroup(tasks, u, task.date) \ {task}
            IN  /\ \E seq \in SortedByOrder(remaining) :
                       tasks' = ((tasks \ {task}) \ remaining) \cup Enumerated(seq)
                /\ last' = Response("delete_task", id, "delete", 0, 200, "")

\* The update requests that are tried
EmptyUpdate == [f \in {} |-> 0]

TaskUpdates ==
    {[date |-> d] : d \in Dates}
    \cup {[order |-> r] : r \in OrderInputs}
    \cup {[title |-> x] : x \in Texts}
    \cup {[note |-> x] : x \in Texts}
    \cup {[title |-> x, note |-> x] : x \in Texts}
    \cup {[is_completed |-> c] : c \in BOOLEAN}
    \cup {EmptyUpdate}
    \cup {[order |-> 2, title |-> ""], [date |-> 1, is_completed |-> TRUE]}

TaskIds == 1 .. MaxRows

\* ------------------------------------------------------------------ backlogs
\* The gate that lets every user pass
SubscribedAlways(u) == TRUE

\* Depends(get_subscribed_user): the caller passes when is_subscribed is True
Subscribed(u) == users[u].is_subscribed = TRUE

PaymentRequired(op, id) == Response(op, id, "gate", 0, 402, "User is not subscribed")

BacklogGroup(S, u) == {b \in S : b.user_id = u}

\* UPDATE backlogs SET order = order + 1 WHERE user_id = u
BacklogsShifted(S, u) ==
    {IF b.user_id = u THEN [b EXCEPT !.order = b.order + 1] ELSE b : b \in S}

\* GET /backlogs/ of a subscribed caller: the lists that the query may return
GetBacklogs(u) == SortedByOrder({b \in backlogs : b.user_id = u})

\* db.query(Backlog).filter(Backlog.id == backlog_id, Backlog.user_id == user_id)
BacklogOf(u, id) == {b \in backlogs : b.id = id /\ b.user_id = u}

\* POST /backlogs/
CreateBacklog(u, detail) ==
    /\ UNCHANGED <<noteVars, users, tasks, nextTaskId, today, sess>>
    /\ IF ~Subscribed(u)
       THEN /\ last' = PaymentRequired("create_backlog", 0)
            /\ UNCHANGED <<backlogs, nextBacklogId>>
       ELSE /\ LET shifted == BacklogsShifted(backlogs, u)
                   new_backlog == [id |-> nextBacklogId, user_id |-> u, date |-> today,
                                   detail |-> detail, order |-> 1]
               IN  backlogs' = shifted \cup {new_backlog}
            /\ nextBacklogId' = nextBacklogId + 1
            /\ last' = Response("create_backlog", nextBacklogId, "create", 0, 200, "")

BacklogGroups == [order |-> {"order"}, detail |-> {"detail"}]

\* update_backlog, order branch (new_order >= 1)
BacklogOrderBranch(backlog, requested) ==
    LET other_backlogs == {b \in backlogs : b.user_id = backlog.user_id
                                            /\ b.id # backlog.id}
        new_order == ClampOrder(requested, other_backlogs)
        current_order == backlog.order
    IN  (backlogs \ (other_backlogs \cup {backlog}))
        \cup {[b EXCEPT !.order = ShiftedOrder(b.order, current_order, new_order)]
                 : b \in other_backlogs}
        \cup {[backlog EXCEPT !.order = new_order]}

\* update_backlog, detail branch
BacklogDetailBranch(backlog, detail) ==
    (backlogs \ {backlog}) \cup {[backlog EXCEPT !.detail = detail, !.date = today]}

\* PATCH /backlogs/{backlog_id}
UpdateBacklog(u, id, upd) ==
    LET found == BacklogOf(u, id)
        update_fields == DOMAIN upd
    IN
    /\ UNCHANGED <<noteVars, users, tasks, nextTaskId, nextBacklogId, today, sess>>
    /\ IF ~Subscribed(u)
       THEN /\ last' = PaymentRequired("update_backlog", 0)
            /\ UNCHANGED backlogs
       ELSE IF found = {}
       THEN /\ last' = Response("update_backlog", 0, "lookup", 0, 404, "Backlog not found")
            /\ UNCHANGED backlogs
       ELSE LET backlog == CHOOSE b \in found : TRUE IN
         IF Cardinality(MatchedGroups(BacklogGroups, update_fields)) > 1
         THEN /\ last' = Response("update_backlog", 0, "conflict", 0, 400,
                   "Only one type of update is allowed per request (order or detail).")
              /\ UNCHANGED backlogs
         ELSE IF "order" \in update_fields
         THEN IF InvalidOrder(upd.order)
              THEN /\ last' = Response("update_backlog", 0, "order", upd.order, 400,
                                       "Order must be 1 or greater")
                   /\ UNCHANGED backlogs
              ELSE /\ backlogs' = BacklogOrderBranch(backlog, upd.order)
                   /\ last' = Response("update_backlog", id, "order", upd.order, 200, "")
         ELSE IF {"detail"} \cap update_fields # {}
         THEN /\ backlogs' = BacklogDetailBranch(backlog, upd.detail)
              /\ last' = Response("update_backlog", id, "detail", 0, 200, "")
         ELSE /\ UNCHANGED backlogs
              /\ last' = Response("update_backlog", id, "empty", 0, 200, "")

\* The compaction without the condition on the order
BacklogsCompactedAll(S, u, backlog_order) ==
    {IF b.user_id = u THEN [b EXCEPT !.order = b.order - 1] ELSE b : b \in S}

\* delete_backlog, after the row is gone: every row of the owner above
\* backlog_order goes down by one
BacklogsCompacted(S, u, backlog_order) ==
    {IF b.user_id = u /\ b.order > backlog_order
     THEN [b EXCEPT !.order = b.order - 1] ELSE b : b \in S}

\* DELETE /backlogs/{backlog_id}
DeleteBacklog(u, id) ==
    LET found == BacklogOf(u, id) IN
    /\ UNCHANGED <<noteVars, users, tasks, nextTaskId, nextBacklogId, today, sess>>
    /\ IF ~Subscribed(u)
       THEN /\ last' = PaymentRequired("delete_backlog", 0)
            /\ UNCHANGED backlogs
       ELSE IF found = {}
       THEN /\ last' = Response("delete_backlog", 0, "lookup", 0, 404, "Backlog not found")
            /\ UNCHANGED backlogs
       ELSE LET backlog == CHOOSE b \in found : TRUE IN
            /\ backlogs' = BacklogsCompacted(backlogs \ {backlog}, u, backlog.order)
            /\ last' = Response("delete_backlog", id, "delete", 0, 200, "")

BacklogUpdates ==
    {[order |-> r] : r \in OrderInputs}
    \cup {[detail |-> x] : x \in Texts}
    \cup {EmptyUpdate}
    \cup {[order |-> 2, detail |-> ""]}

BacklogIds == 1 .. MaxRows

\* ------------------------------------------------------------------ notes
\* The response to a note request, with the caller and the date or the note
\* id that the request named (0 for the one it did not name)
Noted(resp, u, d, note_id) ==
    [op |-> resp.op, id |-> resp.id, mode |-> resp.mode, req |-> resp.req,
     status |-> resp.status, detail |-> resp.detail,
     user |-> u, date |-> d, note_id |-> note_id]

\* The lookup by date that leaves out the owner
NoteOnAnyOwner(u, d) == {n \in notes : n.date = d}

\* The lookup by date that passes over the notes never written
NoteOnWritten(u, d) == {n \in notes : n.user_id = u /\ n.date = d /\ n.entry # ""}

\* db.query(Note).filter(Note.user_id == user_id, Note.date == date)
NoteOn(u, d) == {n \in notes : n.user_id = u /\ n.date = d}

\* The lookup by id that leaves out the owner
NoteOfAny(u, id) == {n \in notes : n.id = id}

\* db.query(Note).filter(Note.id == note_id, Note.user_id == user_id)
NoteOf(u, id) == {n \in notes : n.id = id /\ n.user_id = u}

\* GET /notes/?date=d
GetOrCreateNote(u, d) ==
    /\ UNCHANGED <<users, tasks, backlogs, nextTaskId, nextBacklogId, today, sess>>
    /\ IF ~Subscribed(u)
       THEN /\ last' = Noted(PaymentRequired("get_or_create_note", 0), u, d, 0)
            /\ UNCHANGED noteVars
       ELSE IF NoteOn(u, d) # {}
       THEN /\ \E note \in NoteOn(u, d) :
                   last' = Noted(Response("get_or_create_note", note.id, "get", 0, 200, ""),
                                 u, d, 0)
            /\ UNCHANGED noteVars
       ELSE /\ notes' = notes \cup {[id |-> nextNoteId, user_id |-> u, date |-> d,
                                      entry |-> ""]}
            /\ nextNoteId' = nextNoteId + 1
            /\ last' = Noted(Response("get_or_create_note", nextNoteId, "create", 0, 200, ""),
                             u, d, 0)

\* POST /notes/
CreateNote(u, d, entry) ==
    /\ UNCHANGED <<users, tasks, backlogs, nextTaskId, nextBacklogId, today, sess>>
    /\ IF ~Subscribed(u)
       THEN /\ last' = Noted(PaymentRequired("create_note", 0), u, d, 0)
            /\ UNCHANGED noteVars
       ELSE IF NoteOn(u, d) # {}
       THEN /\ last' = Noted(Response("create_note", 0, "duplicate", 0, 400,
                                      "Note already exists for this date"), u, d, 0)
            /\ UNCHANGED noteVars
       ELSE /\ notes' = notes \cup {[id |-> nextNoteId, user_id |-> u, date |-> d,
                                      entry |-> entry]}
            /\ nextNoteId' = nextNoteId + 1
            /\ last' = Noted(Response("create_note", nextNoteId, "create", 0, 200, ""),
                             u, d, 0)

\* PATCH /notes/{note_id}: the first handler registered for the path
UpdateNote(u, id, upd) ==
    LET found == NoteOf(u, id) IN
    /\ UNCHANGED <<users, tasks, backlogs, nextTaskId, nextBacklogId, today, sess>>
    /\ UNCHANGED nextNoteId
    /\ IF ~Subscribed(u)
       THEN /\ last' = Noted(PaymentRequired("update_note", 0), u, NoDate, id)
            /\ UNCHANGED notes
       ELSE IF found = {}
       THEN /\ last' = Noted(Response("update_note", 0, "lookup", 0, 404, "Note not found"),
                             u, NoDate, id)
            /\ UNCHANGED notes
       ELSE LET note == CHOOSE n \in found : TRUE IN
            /\ notes' = (notes \ {note})
                          \cup {[note EXCEPT !.entry = IF "entry" \in DOMAIN upd
                                                       THEN upd.entry ELSE @]}
            /\ last' = Noted(Response("update_note", id, "entry", 0, 200, ""), u, NoDate, id)

\* clear_note, called with the caller's user and a note id
ClearNote(u, id) ==
    LET found == NoteOf(u, id) IN
    /\ UNCHANGED <<users, tasks, backlogs, nextTaskId, nextBacklogId, today, sess>>
    /\ UNCHANGED nextNoteId
    /\ IF ~Subscribed(u)
       THEN /\ last' = Noted(PaymentRequired("clear_note", 0), u, NoDate, id)
            /\ UNCHANGED notes
       ELSE IF found = {}
       THEN /\ last' = Noted(Response("clear_note", 0, "lookup", 0, 404, "Note not found"),
                             u, NoDate, id)
            /\ UNCHANGED notes
       ELSE LET note == CHOOSE n \in found : TRUE IN
            /\ notes' = (notes \ {note}) \cup {[note EXCEPT !.entry = ""]}
            /\ last' = Noted(Response("clear_note", id, "clear", 0, 200, ""), u, NoDate, id)

\* The handlers registered for PATCH /notes/{note_id}, in the order of their
\* decorators
NotePatchRoutes == <<"update_note", "clear_note">>

\* The router that takes the handler registered last
MatchedRouteLast(routes) == routes[Len(routes)]

\* The router goes through its routes in the order they were added and takes
\* the first that matches the method and the path
MatchedRoute(routes) == routes[1]

\* PATCH /notes/{note_id} sent through the router, with a JSON body
PatchNote(u, id, upd) ==
    IF MatchedRoute(NotePatchRoutes) = "update_note"
    THEN UpdateNote(u, id, upd)
    ELSE ClearNote(u, id)

\* The query that takes every note for an empty one
EmptyNotesAll(S) == S

\* db.query(Note).filter(Note.entry == "").all()
EmptyNotes(S) == {n \in S : n.entry = ""}

\* The scheduled job delete_empty_notes
DeleteEmptyNotes ==
    /\ notes' = notes \ EmptyNotes(notes)
    /\ last' = Response("delete_empty_notes", 0, "purge", 0, 200, "")
    /\ UNCHANGED <<users, tasks, backlogs, nextTaskId, nextBacklogId, nextNoteId, today, sess>>

\* delete_empty_notes when the commit raises: db.rollback()
DeleteEmptyNotesFails ==
    /\ last' = Response("delete_empty_notes", 0, "purge", 0, 500, "")
    /\ UNCHANGED <<noteVars, users, tasks, backlogs, nextTaskId, nextBacklogId, today, sess>>

\* ------------------------------------------------------------------ lists
\* The response to a list request: the caller, the range asked for and the
\* rows, in the order they are returned
Listed(op, u, start, end, rows) ==
    [op |-> op, id |-> 0, mode |-> "list", req |-> 0, status |-> 200, detail |-> "",
     user |-> u, start |-> start, end |-> end, rows |-> rows]

\* GET /tasks/?start=..&end=..
ListTasks(u, start, end) ==
    /\ \E rows \in GetTasks(u, start, end) : last' = Listed("get_tasks", u, start, end, rows)
    /\ UNCHANGED <<noteVars, users, tasks, backlogs, nextTaskId, nextBacklogId, today, sess>>

\* GET /backlogs/
ListBacklogs(u) ==
    /\ UNCHANGED <<noteVars, users, tasks, backlogs, nextTaskId, nextBacklogId, today, sess>>
    /\ IF ~Subscribed(u)
       THEN last' = PaymentRequired("get_backlogs", 0)
       ELSE \E rows \in GetBacklogs(u) :
               last' = Listed("get_backlogs", u, NoDate, NoDate, rows)

\* ------------------------------------------------------------------ users
\* A stripe id column that holds None
NoId == 0

\* subscription_status when it holds None
NoStatus == "null"

\* The subscription ids of the billing provider
Subs == 1 .. MaxSubs

\* User(firebase_uid=..., name=..., email=..., is_subscribed=False): the
\* stripe columns are None
NewUser(uid) ==
    [firebase_uid |-> uid, name |-> "", is_subscribed |-> FALSE,
     stripe_customer_id |-> NoId, stripe_subscription_id |-> NoId,
     subscription_status |-> NoStatus]

\* The user u after a checkout in subscription mode: customer u holds
\* subscription u
SubscribedUser(u) ==
    [NewUser(u) EXCEPT !.is_subscribed = TRUE, !.stripe_customer_id = u,
                       !.stripe_subscription_id = u, !.subscription_status = "active"]

\* ------------------------------------------------------------------ identity
\* The uids of the identity service; the uids above 2 have no user at the start
Uids == 1 .. MaxUids

\* The bearer tokens: the uid the token was issued for, and whether the
\* identity service still accepts it
Tokens == [uid : Uids, valid : BOOLEAN]

\* The verification that accepts every token
VerifiedAlways(token) == TRUE

\* firebase_auth.verify_id_token(token) does not raise
Verified(token) == token.valid

\* db.query(User).filter(User.firebase_uid == firebase_uid)
UsersWith(uid) == {i \in DOMAIN users : users[i].firebase_uid = uid}

\* get_user: the user that the dependency hands to the handler, if any
GetUser(token) == IF Verified(token) THEN UsersWith(token.uid) ELSE {}

\* get_user / get_token raise: the request ends before its handler runs
AuthFails(token, op) ==
    /\ GetUser(token) = {}
    /\ last' = IF ~Verified(token)
               THEN Response(op, 0, "auth", 0, 401, "Invalid or expired token")
               ELSE Response(op, 0, "auth", 0, 404, "User not found")
    /\ UNCHANGED <<noteVars, users, tasks, backlogs, nextTaskId, nextBacklogId, today, sess>>

\* The response of get_current_user, with the uid of the decoded token
Identified(resp, uid) ==
    [op |-> resp.op, id |-> resp.id, mode |-> resp.mode, req |-> resp.req,
     status |-> resp.status, detail |-> resp.detail, uid |-> uid]

\* GET /users/get_current
GetCurrentUser(token) ==
    /\ UNCHANGED <<noteVars, tasks, backlogs, nextTaskId, nextBacklogId, today, sess>>
    /\ IF ~Verified(token)
       THEN /\ last' = Identified(Response("get_current_user", 0, "auth", 0, 401,
                                           "Invalid or expired token"), token.uid)
            /\ UNCHANGED users
       ELSE IF UsersWith(token.uid) # {}
       THEN /\ \E user \in UsersWith(token.uid) :
                   last' = Identified(Response("get_current_user", user, "get", 0, 200, ""),
                                      token.uid)
            /\ UNCHANGED users
       ELSE /\ users' = Append(users, NewUser(token.uid))
            /\ last' = Identified(Response("get_current_user", Len(users) + 1, "create", 0,
                                           200, ""), token.uid)

\* db.query(User).filter(User.id == user_id)
UpdatedUser(caller, user_id) == {i \in DOMAIN users : i = user_id}

\* The bodies of the user updates that are tried: UserUpdate has the one
\* field name, which must be given; a field it does not have is ignored
UserUpdates ==
    [name : Words] \cup [is_subscribed : BOOLEAN] \cup [name : Words, is_subscribed : BOOLEAN]
    \cup {EmptyUpdate}

\* The response of update_user, with the caller, the user_id of the path and
\* the body of the request
Scoped(resp, caller, user_id, body) ==
    [op |-> resp.op, id |-> resp.id, mode |-> resp.mode, req |-> resp.req,
     status |-> resp.status, detail |-> resp.detail,
     user |-> caller, user_id |-> user_id, body |-> body]

\* PATCH /users/{user_id}
UpdateUser(caller, user_id, body) ==
    LET found == UpdatedUser(caller, user_id) IN
    /\ UNCHANGED <<noteVars, tasks, backlogs, nextTaskId, nextBacklogId, today, sess>>
    /\ IF ~Subscribed(caller)
       THEN /\ last' = Scoped(PaymentRequired("update_user", 0), caller, user_id, body)
            /\ UNCHANGED users
       ELSE IF "name" \notin DOMAIN body
       THEN /\ last' = Scoped(Response("update_user", 0, "body", 0, 422, "Field required"),
                              caller, user_id, body)
            /\ UNCHANGED users
       ELSE IF found = {}
       THEN /\ last' = Scoped(Response("update_user", 0, "lookup", 0, 404, "User not found"),
                              caller, user_id, body)
            /\ UNCHANGED users
       ELSE \E u \in found :
               /\ users' = [users EXCEPT ![u].name = body.name]
               /\ last' = Scoped(Response("update_user", u, "name", 0, 200, ""),
                                 caller, user_id, body)

\* ------------------------------------------------------------------ billing
\* The statuses that the billing provider gives a subscription
SubStatuses == {"active", "trialing", "past_due"}

\* event["type"] and, of event["data"]["object"], the customer, the
\* subscription (the object's id in the customer.subscription events), the
\* mode, the status and cancel_at_period_end
Event(type, customer, subscription, mode, status, cancel_at_period_end) ==
    [type |-> type, customer |-> customer, subscription |-> subscription, mode |-> mode,
     status |-> status, cancel_at_period_end |-> cancel_at_period_end]

NoEvent == Event("none", NoId, NoId, "", "", FALSE)

\* The events that the provider sends about the customers in C
Events(C) ==
    {Event("checkout.session.completed", c, s, m, "", FALSE) :
        c \in C, s \in Subs \cup {NoId}, m \in {"subscription", "payment"}}
    \cup {Event(t, c, NoId, "", "", FALSE) :
             t \in {"invoice.paid", "invoice.payment_failed", "customer.updated"}, c \in C}
    \cup {Event("customer.subscription.updated", c, s, "", st, FALSE) :
             c \in C, s \in Subs, st \in SubStatuses}
    \cup {Event("customer.subscription.deleted", c, s, "", "", b) :
             c \in C, s \in Subs, b \in BOOLEAN}

\* What a request did, in the order it did it: its calls of the provider
\* (with the id they were about and whether they succeeded) and its commit
ProviderCall(name, id, ok) == [step |-> name, id |-> id, ok |-> ok]

Commit == [step |-> "commit", id |-> NoId, ok |-> TRUE]

\* What get_subscription_status returns
NoReport == [is_subscribed |-> FALSE, status |-> ""]

\* The response of a billing route: the user it was about, the event of the
\* webhook, what the request did and what it reported
Billed(resp, u, event, trace, report) ==
    [op |-> resp.op, id |-> resp.id, mode |-> resp.mode, req |-> resp.req,
     status |-> resp.status, detail |-> resp.detail,
     user |-> u, event |-> event, trace |-> trace, report |-> report]

\* db.query(User).filter_by(stripe_customer_id=customer_id)
CustomerOf(customer_id) ==
    {i \in DOMAIN users : users[i].stripe_customer_id = customer_id}

\* checkout.session.completed that cancels whatever subscription is stored
CheckoutCompletedCancelsAny(user, event, ok) ==
    LET existing == user.stripe_subscription_id
        subscribed == [user EXCEPT !.is_subscribed = TRUE]
        cancel == IF existing # NoId
                  THEN <<ProviderCall("Subscription.delete", existing, ok)>> ELSE <<>>
    IN  IF event.subscription # NoId /\ event.mode = "subscription"
        THEN [user |-> [subscribed EXCEPT !.stripe_subscription_id = event.subscription,
                                          !.subscription_status = "active"],
              trace |-> cancel \o <<Commit>>]
        ELSE IF event.mode = "payment"
        THEN [user |-> [subscribed EXCEPT !.subscription_status = "lifetime",
                                          !.stripe_subscription_id = NoId],
              trace |-> cancel \o <<Commit>>]
        ELSE [user |-> subscribed, trace |-> <<Commit>>]

\* checkout.session.completed that stores the new subscription and then
\* cancels the old one
CheckoutCompletedStoresFirst(user, event, ok) ==
    LET existing == user.stripe_subscription_id
        subscribed == [user EXCEPT !.is_subscribed = TRUE]
    IN  IF event.subscription # NoId /\ event.mode = "subscription"
        THEN [user |-> [subscribed EXCEPT !.stripe_subscription_id = event.subscription,
                                          !.subscription_status = "active"],
              trace |-> <<Commit>> \o
                        (IF existing # NoId /\ existing # event.subscription
                         THEN <<ProviderCall("Subscription.delete", existing, ok)>>
                         ELSE <<>>)]
        ELSE IF event.mode = "payment"
        THEN [user |-> [subscribed EXCEPT !.subscription_status = "lifetime",
                                          !.stripe_subscription_id = NoId],
              trace |-> <<Commit>> \o
                        (IF existing # NoId
                         THEN <<ProviderCall("Subscription.delete", existing, ok)>>
                         ELSE <<>>)]
        ELSE [user |-> subscribed, trace |-> <<Commit>>]

\* stripe_webhook, checkout.session.completed: the user after the event and
\* what the handler did; a failure of stripe.Subscription.delete is logged
\* and the handler goes on
CheckoutCompleted(user, event, ok) ==
    LET existing == user.stripe_subscription_id
        subscribed == [user EXCEPT !.is_subscribed = TRUE]
    IN  IF event.subscription # NoId /\ event.mode = "subscription"
        THEN [user |-> [subscribed EXCEPT !.stripe_subscription_id = event.subscription,
                                          !.subscription_status = "active"],
              trace |-> (IF existing # NoId /\ existing # event.subscription
                         THEN <<ProviderCall("Subscription.delete", existing, ok)>>
                         ELSE <<>>) \o <<Commit>>]
        ELSE IF event.mode = "payment"
        THEN [user |-> [subscribed EXCEPT !.subscription_status = "lifetime",
                                          !.stripe_subscription_id = NoId],
              trace |-> (IF existing # NoId
                         THEN <<ProviderCall("Subscription.delete", existing, ok)>>
                         ELSE <<>>) \o <<Commit>>]
        ELSE [user |-> subscribed, trace |-> <<Commit>>]

\* stripe_webhook, customer.subscription.updated
SubscriptionUpdated(user, event) ==
    [user |-> [user EXCEPT !.stripe_subscription_id = event.subscription,
                           !.subscription_status = event.status,
                           !.is_subscribed = event.status \in {"active", "trialing"}],
     trace |-> <<Commit>>]

\* stripe_webhook, customer.subscription.deleted
SubscriptionDeleted(user, event) ==
    IF user.stripe_subscription_id # event.subscription
    THEN [user |-> user, trace |-> <<>>]
    ELSE IF event.cancel_at_period_end
    THEN [user |-> [user EXCEPT !.subscription_status = "canceled"], trace |-> <<Commit>>]
    ELSE [user |-> [user EXCEPT !.subscription_status = "deleted",
                                !.is_subscribed = FALSE,
                                !.stripe_subscription_id = NoId],
          trace |-> <<Commit>>]

HandledTypes == {"checkout.session.completed", "invoice.paid",
                 "customer.subscription.updated", "customer.subscription.deleted",
                 "invoice.payment_failed"}

\* stripe_webhook: the branch of the event's type, on the user of the customer
Handled(user, event, ok) ==
    CASE event.type = "checkout.session.completed" -> CheckoutCompleted(user, event, ok)
      [] event.type = "invoice.paid" ->
            [user |-> [user EXCEPT !.is_subscribed = TRUE, !.subscription_status = "active"],
             trace |-> <<Commit>>]
      [] event.type = "customer.subscription.updated" -> SubscriptionUpdated(user, event)
      [] event.type = "customer.subscription.deleted" -> SubscriptionDeleted(user, event)
      [] event.type = "invoice.payment_failed" ->
            [user |-> [user EXCEPT !.is_subscribed = FALSE, !.subscription_status = "past_due"],
             trace |-> <<Commit>>]

\* The response of the webhook, with whether the request before it was the
\* same event, handled
Delivered(resp, event) ==
    resp @@ [again |-> last.op = "stripe_webhook" /\ last.status = 200 /\ last.event = event]

\* POST /api/stripe/webhook.  signed: construct_event accepts the payload
\* and its signature; ok: the provider call that the handler makes, if it
\* makes one, succeeds
StripeWebhook(event, signed, ok) ==
    /\ UNCHANGED <<noteVars, tasks, backlogs, nextTaskId, nextBacklogId, today, sess>>
    /\ IF ~signed
       THEN /\ last' = Delivered(Billed(Response("stripe_webhook", 0, "signature", 0, 400,
                                                 "Invalid signature"),
                                        0, event, <<>>, NoReport), event)
            /\ UNCHANGED users
       ELSE IF event.type \notin HandledTypes \/ CustomerOf(event.customer) = {}
       THEN /\ last' = Delivered(Billed(Response("stripe_webhook", 0, event.type, 0, 200, ""),
                                        0, event, <<>>, NoReport), event)
            /\ UNCHANGED users
       ELSE \E u \in CustomerOf(event.customer) :
               LET handled == Handled(users[u], event, ok) IN
               /\ users' = [users EXCEPT ![u] = handled.user]
               /\ last' = Delivered(Billed(Response("stripe_webhook", u, event.type, 0, 200, ""),
                                           u, event, handled.trace, NoReport), event)

\* POST /api/stripe/webhook, invoice.paid for the customer of user u
InvoicePaid(u) ==
    /\ users[u].stripe_customer_id # NoId
    /\ StripeWebhook(Event("invoice.paid", users[u].stripe_customer_id, NoId, "", "", FALSE),
                     TRUE, TRUE)

\* POST /api/stripe/webhook, invoice.payment_failed for the customer of user u
InvoicePaymentFailed(u) ==
    /\ users[u].stripe_customer_id # NoId
    /\ StripeWebhook(Event("invoice.payment_failed", users[u].stripe_customer_id, NoId,
                           "", "", FALSE), TRUE, TRUE)

\* GET /api/stripe/subscription-status.  ok: stripe.Subscription.retrieve
\* succeeds; provider_status: the status the provider has for the subscription
GetSubscriptionStatus(u, ok, provider_status) ==
    LET subscription_id == users[u].stripe_subscription_id IN
    /\ UNCHANGED <<noteVars, users, tasks, backlogs, nextTaskId, nextBacklogId, today, sess>>
    /\ IF subscription_id = NoId
       THEN last' = Billed(Response("get_subscription_status", u, "stored", 0, 200, ""),
                           u, NoEvent, <<>>,
                           IF users[u].subscription_status = "lifetime"
                           THEN [is_subscribed |-> TRUE, status |-> "lifetime"]
                           ELSE [is_subscribed |-> FALSE, status |-> "none"])
       ELSE IF ~ok
       THEN last' = Billed(Response("get_subscription_status", 0, "retrieve", 0, 502,
                                    "Stripe error"),
                           u, NoEvent,
                           <<ProviderCall("Subscription.retrieve", subscription_id, FALSE)>>,
                           NoReport)
       ELSE last' = Billed(Response("get_subscription_status", u, "retrieve", 0, 200, ""),
                           u, NoEvent,
                           <<ProviderCall("Subscription.retrieve", subscription_id, TRUE)>>,
                           [is_subscribed |-> provider_status = "active",
                            status |-> provider_status])

\* POST /api/stripe/create-checkout-session.  ok_customer, ok_session:
\* stripe.Customer.create and stripe.checkout.Session.create succeed; the
\* customer that the provider makes for user u has the id u
CreateCheckoutSession(u, mode, ok_customer, ok_session) ==
    LET has_customer == users[u].stripe_customer_id # NoId
        created == IF has_customer THEN <<>>
                   ELSE <<ProviderCall("Customer.create", u, ok_customer), Commit>>
    IN
    /\ UNCHANGED <<noteVars, tasks, backlogs, nextTaskId, nextBacklogId, today, sess>>
    /\ IF ~has_customer /\ ~ok_customer
       THEN /\ last' = Billed(Response("create_checkout_session", 0, "customer", 0, 502,
                                       "Stripe error"),
                              u, NoEvent,
                              <<ProviderCall("Customer.create", NoId, FALSE)>>, NoReport)
            /\ UNCHANGED users
       ELSE /\ users' = IF has_customer THEN users
                        ELSE [users EXCEPT ![u].stripe_customer_id = u]
            /\ last' = IF ok_session
                       THEN Billed(Response("create_checkout_session", u, mode, 0, 200, ""),
                                   u, NoEvent,
                                   created \o <<ProviderCall("checkout.Session.create",
                                                             users'[u].stripe_customer_id, TRUE)>>,
                                   NoReport)
                       ELSE Billed(Response("create_checkout_session", 0, mode, 0, 502,
                                            "Stripe error"),
                                   u, NoEvent,
                                   created \o <<ProviderCall("checkout.Session.create",
                                                             users'[u].stripe_customer_id, FALSE)>>,
                                   NoReport)

\* cancel_subscription that marks the subscription canceled whatever the
\* provider answers
CanceledOnFailed(ok) == TRUE

\* stripe.Subscription.modify raised: the handler leaves before setattr and
\* db.commit()
Canceled(ok) == ok

\* POST /api/stripe/cancel-subscription.  ok: stripe.Subscription.modify
\* succeeds
CancelSubscription(u, ok) ==
    LET subscription_id == users[u].stripe_subscription_id IN
    /\ UNCHANGED <<noteVars, tasks, backlogs, nextTaskId, nextBacklogId, today, sess>>
    /\ IF ~Subscribed(u)
       THEN /\ last' = Billed(PaymentRequired("cancel_subscription", 0), u, NoEvent, <<>>,
                              NoReport)
            /\ UNCHANGED users
       ELSE IF subscription_id = NoId
       THEN /\ last' = Billed(Response("cancel_subscription", 0, "stored", 0, 400,
                                       "No active subscription to cancel."),
                              u, NoEvent, <<>>, NoReport)
            /\ UNCHANGED users
       ELSE /\ users' = IF Canceled(ok)
                        THEN [users EXCEPT ![u].subscription_status = "canceled"]
                        ELSE users
            /\ last' = IF ok
                       THEN Billed(Response("cancel_subscription", u, "modify", 0, 200, ""),
                                   u, NoEvent,
                                   <<ProviderCall("Subscription.modify", subscription_id, TRUE),
                                     Commit>>, NoReport)
                       ELSE Billed(Response("cancel_subscription", 0, "modify", 0, 502,
                                            "Stripe error"),
                                   u, NoEvent,
                                   <<ProviderCall("Subscription.modify", subscription_id, FALSE)>>,
                                   NoReport)

\* ------------------------------------------------------------------ requests in steps
\* A request runs in a database session of its own.  What it reads is the
\* committed store at the time of the query; what it writes reaches the
\* store when it commits.  The bulk UPDATE of a create keeps its rows locked
\* until the commit, and a statement that writes a locked row waits.

AllIdle == \A s \in Sessions : sess[s].pc = "idle"

TaskLocks(s) == IF sess[s].pc = "create_task" THEN sess[s].locked ELSE {}

BacklogLocks(s) == IF sess[s].pc = "create_backlog" THEN sess[s].locked ELSE {}

TaskLockedByOthers(s) == UNION {TaskLocks(o) : o \in Sessions \ {s}}

BacklogLockedByOthers(s) == UNION {BacklogLocks(o) : o \in Sessions \ {s}}

Ids(S) == {r.id : r \in S}

\* The rows of S, with every row that writes names set to the order given
Written(S, writes) ==
    {IF \E w \in writes : w[1] = r.id
     THEN [r EXCEPT !.order = (CHOOSE w \in writes : w[1] = r.id)[2]] ELSE r : r \in S}

\* The rows that a flush updates: those whose order is not the one loaded
Dirty(loaded, changed) ==
    {<<r.id, r.order>> : r \in {c \in changed : \A l \in loaded : l.id = c.id => l.order # c.order}}

\* create_task up to the bulk UPDATE
BeginCreateTask(s, u, d) ==
    /\ sess[s].pc = "idle"
    /\ Ids(TaskGroup(tasks, u, d)) \cap TaskLockedByOthers(s) = {}
    /\ sess' = [sess EXCEPT ![s] = [pc |-> "create_task", u |-> u, d |-> d,
                                    locked |-> Ids(TaskGroup(tasks, u, d))]]
    /\ UNCHANGED <<noteVars, users, tasks, backlogs, nextTaskId, nextBacklogId, today, last>>

\* create_task: db.add, db.commit
CommitCreateTask(s) ==
    /\ sess[s].pc = "create_task"
    /\ LET u == sess[s].u
           d == sess[s].d
           hit == {t \in tasks : t.id \in sess[s].locked}
           new_task == [id |-> nextTaskId, user_id |-> u, date |-> d, title |-> "",
                        note |-> "", is_completed |-> FALSE, order |-> 1]
       IN  tasks' = (tasks \ hit) \cup TasksShifted(hit, u, d) \cup {new_task}
    /\ nextTaskId' = nextTaskId + 1
    /\ last' = Response("create_task", nextTaskId, "create", 0, 200, "")
    /\ sess' = [sess EXCEPT ![s] = Idle]
    /\ UNCHANGED <<noteVars, users, backlogs, nextBacklogId, today>>

\* update_task, order branch, up to the end of the shift loop
ReadOrderTask(s, u, id, requested) ==
    /\ sess[s].pc = "idle"
    /\ ~InvalidOrder(requested)
    /\ \E task \in tasks :
          /\ task.id = id /\ task.user_id = u
          /\ LET group == TaskGroup(tasks, u, task.date)
                 after == TaskGroup(TaskOrderBranch(task, requested), u, task.date)
             IN  sess' = [sess EXCEPT ![s] = [pc |-> "order_task", id |-> id,
                                              req |-> requested,
                                              writes |-> Dirty(group, after)]]
    /\ UNCHANGED <<noteVars, users, tasks, backlogs, nextTaskId, nextBacklogId, today, last>>

\* update_task: db.commit (the flush writes the rows the loop changed; a row
\* that is gone makes the flush, and the request, fail)
CommitOrderTask(s) ==
    /\ sess[s].pc = "order_task"
    /\ {w[1] : w \in sess[s].writes} \cap TaskLockedByOthers(s) = {}
    /\ IF {w[1] : w \in sess[s].writes} \subseteq Ids(tasks)
       THEN /\ tasks' = Written(tasks, sess[s].writes)
            /\ last' = Response("update_task", sess[s].id, "order", sess[s].req, 200, "")
       ELSE /\ UNCHANGED tasks
            /\ last' = Response("update_task", 0, "order", sess[s].req, 500, "")
    /\ sess' = [sess EXCEPT ![s] = Idle]
    /\ UNCHANGED <<noteVars, users, backlogs, nextTaskId, nextBacklogId, today>>

\* delete_task up to the first db.commit: the row is gone
DeleteTaskCommit(s, u, id) ==
    /\ sess[s].pc = "idle"
    /\ id \notin TaskLockedByOthers(s)
    /\ \E task \in tasks :
          /\ task.id = id /\ task.user_id = u
          /\ tasks' = tasks \ {task}
          /\ sess' = [sess EXCEPT ![s] = [pc |-> "deleted_task", id |-> id, u |-> u,
                                          d |-> task.date]]
    /\ UNCHANGED <<noteVars, users, backlogs, nextTaskId, nextBacklogId, today, last>>

\* delete_task from the first commit on: the rows of the date are read,
\* numbered from 1 and committed
RenumberTasks(s) ==
    /\ sess[s].pc = "deleted_task"
    /\ LET remaining == TaskGroup(tasks, sess[s].u, sess[s].d) IN
          /\ Ids(remaining) \cap TaskLockedByOthers(s) = {}
          /\ \E seq \in SortedByOrder(remaining) :
                 tasks' = (tasks \ remaining) \cup Enumerated(seq)
    /\ last' = Response("delete_task", sess[s].id, "delete", 0, 200, "")
    /\ sess' = [sess EXCEPT ![s] = Idle]
    /\ UNCHANGED <<noteVars, users, backlogs, nextTaskId, nextBacklogId, today>>

\* delete_task: the second db.commit raises
RenumberTasksFails(s) ==
    /\ sess[s].pc = "deleted_task"
    /\ last' = Response("delete_task", 0, "delete", 0, 500, "")
    /\ sess' = [sess EXCEPT ![s] = Idle]
    /\ UNCHANGED <<noteVars, users, tasks, backlogs, nextTaskId, nextBacklogId, today>>

\* create_backlog up to the bulk UPDATE
BeginCreateBacklog(s, u) ==
    /\ sess[s].pc = "idle"
    /\ Subscribed(u)
    /\ Ids(BacklogGroup(backlogs, u)) \cap BacklogLockedByOthers(s) = {}
    /\ sess' = [sess EXCEPT ![s] = [pc |-> "create_backlog", u |-> u,
                                    locked |-> Ids(BacklogGroup(backlogs, u))]]
    /\ UNCHANGED <<noteVars, users, tasks, backlogs, nextTaskId, nextBacklogId, today, last>>

\* create_backlog: db.add, db.commit
CommitCreateBacklog(s) ==
    /\ sess[s].pc = "create_backlog"
    /\ LET u == sess[s].u
           hit == {b \in backlogs : b.id \in sess[s].locked}
           new_backlog == [id |-> nextBacklogId, user_id |-> u, date |-> today,
                           detail |-> "", order |-> 1]
       IN  backlogs' = (backlogs \ hit) \cup BacklogsShifted(hit, u) \cup {new_backlog}
    /\ nextBacklogId' = nextBacklogId + 1
    /\ last' = Response("create_backlog", nextBacklogId, "create", 0, 200, "")
    /\ sess' = [sess EXCEPT ![s] = Idle]
    /\ UNCHANGED <<noteVars, users, tasks, nextTaskId, today>>

\* update_backlog, order branch, up to the end of the shift loop
ReadOrderBacklog(s, u, id, requested) ==
    /\ sess[s].pc = "idle"
    /\ Subscribed(u)
    /\ ~InvalidOrder(requested)
    /\ \E backlog \in backlogs :
          /\ backlog.id = id /\ backlog.user_id = u
          /\ LET group == BacklogGroup(backlogs, u)
                 after == BacklogGroup(BacklogOrderBranch(backlog, requested), u)
             IN  sess' = [sess EXCEPT ![s] = [pc |-> "order_backlog", id |-> id,
                                              req |-> requested,
                                              writes |-> Dirty(group, after)]]
    /\ UNCHANGED <<noteVars, users, tasks, backlogs, nextTaskId, nextBacklogId, today, last>>

\* update_backlog: db.commit
CommitOrderBacklog(s) ==
    /\ sess[s].pc = "order_backlog"
    /\ {w[1] : w \in sess[s].writes} \cap BacklogLockedByOthers(s) = {}
    /\ IF {w[1] : w \in sess[s].writes} \subseteq Ids(backlogs)
       THEN /\ backlogs' = Written(backlogs, sess[s].writes)
            /\ last' = Response("update_backlog", sess[s].id, "order", sess[s].req, 200, "")
       ELSE /\ UNCHANGED backlogs
            /\ last' = Response("update_backlog", 0, "order", sess[s].req, 500, "")
    /\ sess' = [sess EXCEPT ![s] = Idle]
    /\ UNCHANGED <<noteVars, users, tasks, nextTaskId, nextBacklogId, today>>

\* delete_backlog up to the first db.commit: the row is gone
DeleteBacklogCommit(s, u, id) ==
    /\ sess[s].pc = "idle"
    /\ Subscribed(u)
    /\ id \notin BacklogLockedByOthers(s)
    /\ \E backlog \in backlogs :
          /\ backlog.id = id /\ backlog.user_id = u
          /\ backlogs' = backlogs \ {backlog}
          /\ sess' = [sess EXCEPT ![s] = [pc |-> "deleted_backlog", id |-> id, u |-> u,
                                          backlog_order |-> backlog.order]]
    /\ UNCHANGED <<noteVars, users, tasks, nextTaskId, nextBacklogId, today, last>>

\* delete_backlog from the first commit on: the rows above backlog_order are
\* read, lowered by one and committed
RenumberBacklogs(s) ==
    /\ sess[s].pc = "deleted_backlog"
    /\ Ids({b \in BacklogGroup(backlogs, sess[s].u) : b.order > sess[s].backlog_order})
          \cap BacklogLockedByOthers(s) = {}
    /\ backlogs' = BacklogsCompacted(backlogs, sess[s].u, sess[s].backlog_order)
    /\ last' = Response("delete_backlog", sess[s].id, "delete", 0, 200, "")
    /\ sess' = [sess EXCEPT ![s] = Idle]
    /\ UNCHANGED <<noteVars, users, tasks, nextTaskId, nextBacklogId, today>>

\* delete_backlog: the second db.commit raises
RenumberBacklogsFails(s) ==
    /\ sess[s].pc = "deleted_backlog"
    /\ last' = Response("delete_backlog", 0, "delete", 0, 500, "")
    /\ sess' = [sess EXCEPT ![s] = Idle]
    /\ UNCHANGED <<noteVars, users, tasks, backlogs, nextTaskId, nextBacklogId, today>>

\* get_or_create_note up to the lookup, when it finds no note
ReadGetOrCreateNote(s, u, d) ==
    /\ sess[s].pc = "idle"
    /\ Subscribed(u)
    /\ NoteOn(u, d) = {}
    /\ sess' = [sess EXCEPT ![s] = [pc |-> "insert_note", op |-> "get_or_create_note",
                                    u |-> u, d |-> d, entry |-> ""]]
    /\ UNCHANGED <<noteVars, users, tasks, backlogs, nextTaskId, nextBacklogId, today, last>>

\* create_note up to the lookup, when it finds no note
ReadCreateNote(s, u, d, entry) ==
    /\ sess[s].pc = "idle"
    /\ Subscribed(u)
    /\ NoteOn(u, d) = {}
    /\ sess' = [sess EXCEPT ![s] = [pc |-> "insert_note", op |-> "create_note",
                                    u |-> u, d |-> d, entry |-> entry]]
    /\ UNCHANGED <<noteVars, users, tasks, backlogs, nextTaskId, nextBacklogId, today, last>>

\* get_or_create_note / create_note: db.add, db.commit (the notes table has
\* no constraint on (user_id, date))
InsertNote(s) ==
    /\ sess[s].pc = "insert_note"
    /\ notes' = notes \cup {[id |-> nextNoteId, user_id |-> sess[s].u, date |-> sess[s].d,
                             entry |-> sess[s].entry]}
    /\ nextNoteId' = nextNoteId + 1
    /\ last' = Noted(Response(sess[s].op, nextNoteId, "create", 0, 200, ""),
                     sess[s].u, sess[s].d, 0)
    /\ sess' = [sess EXCEPT ![s] = Idle]
    /\ UNCHANGED <<users, tasks, backlogs, nextTaskId, nextBacklogId, today>>

\* delete_empty_notes up to the query: the empty notes are loaded (the
\* scheduler runs one instance of the job at a time)
ReadEmptyNotes(s) ==
    /\ \A o \in Sessions : sess[o].pc # "purge"
    /\ sess[s].pc = "idle"
    /\ sess' = [sess EXCEPT ![s] = [pc |-> "purge", loaded |-> Ids(EmptyNotes(notes))]]
    /\ UNCHANGED <<noteVars, users, tasks, backlogs, nextTaskId, nextBacklogId, today, last>>

\* delete_empty_notes: db.delete(note) for each loaded note, db.commit (the
\* flush deletes the loaded notes by id)
DeleteLoadedNotes(s) ==
    /\ sess[s].pc = "purge"
    /\ notes' = {n \in notes : n.id \notin sess[s].loaded}
    /\ last' = Response("delete_empty_notes", 0, "purge", 0, 200, "")
    /\ sess' = [sess EXCEPT ![s] = Idle]
    /\ UNCHANGED <<users, tasks, backlogs, nextTaskId, nextBacklogId, nextNoteId, today>>

\* The users table without its constraint on firebase_uid
UidTakenNever(uid) == FALSE

\* firebase_uid = Column(String, unique=True, ...): an insert of a uid that a
\* committed user has is refused
UidTaken(uid) == UsersWith(uid) # {}

\* get_current_user up to the lookup, when it finds no user
ReadCurrentUser(s, token) ==
    /\ sess[s].pc = "idle"
    /\ Verified(token)
    /\ UsersWith(token.uid) = {}
    /\ sess' = [sess EXCEPT ![s] = [pc |-> "insert_user", uid |-> token.uid]]
    /\ UNCHANGED <<noteVars, users, tasks, backlogs, nextTaskId, nextBacklogId, today, last>>

\* get_current_user: db.add(new_user), db.commit (the commit raises when the
\* uid is taken, and the request fails)
InsertUser(s) ==
    /\ sess[s].pc = "insert_user"
    /\ IF UidTaken(sess[s].uid)
       THEN /\ last' = Identified(Response("get_current_user", 0, "create", 0, 500, ""),
                                  sess[s].uid)
            /\ UNCHANGED users
       ELSE /\ users' = Append(users, NewUser(sess[s].uid))
            /\ last' = Identified(Response("get_current_user", Len(users) + 1, "create", 0,
                                           200, ""), sess[s].uid)
    /\ sess' = [sess EXCEPT ![s] = Idle]
    /\ UNCHANGED <<noteVars, tasks, backlogs, nextTaskId, nextBacklogId, today>>

\* ------------------------------------------------------------------ specifications
\* Users 1 and 2 have signed in (their uids are 1 and 2).  Owner 1 holds a
\* subscription; owner 2 may or may not.
Init ==
    /\ \E flags \in [Users -> BOOLEAN] :
          users = [u \in Users |-> IF flags[u] THEN SubscribedUser(u) ELSE NewUser(u)]
    /\ users[1].is_subscribed
    /\ tasks = {}
    /\ backlogs = {}
    /\ notes = {}
    /\ nextNoteId = 1
    /\ nextTaskId = 1
    /\ nextBacklogId = 1
    /\ today = 1
    /\ last = NoResponse
    /\ sess = [s \in Sessions |-> Idle]

TaskWrites ==
    \/ \E u \in TaskUsers, d \in Dates, x \in Texts, c \in BOOLEAN :
          CreateTask(u, d, x, x, c) /\ Within(MaxRows, MaxOrder)'
    \/ \E u \in TaskUsers, id \in TaskIds, upd \in TaskUpdates :
          UpdateTask(u, id, upd) /\ Within(MaxRows, MaxOrder)'

TaskNext ==
    \/ TaskWrites
    \/ \E u \in TaskUsers, id \in TaskIds : DeleteTask(u, id)

BacklogWrites ==
    \/ \E u \in Users, x \in Texts : CreateBacklog(u, x) /\ Within(MaxRows, MaxOrder)'
    \/ \E u \in Users, id \in BacklogIds, upd \in BacklogUpdates : UpdateBacklog(u, id, upd)

BacklogNext ==
    \/ BacklogWrites
    \/ \E u \in Users, id \in BacklogIds : DeleteBacklog(u, id)

Next == TaskNext \/ BacklogNext

\* Requests served one at a time, each as a whole
Spec == Init /\ [][Next]_vars

\* Requests served one at a time; a delete is its two commits, and the second
\* one may fail
CommitsNext ==
    \/ AllIdle /\ TaskWrites
    \/ AllIdle /\ BacklogWrites
    \/ \E u \in TaskUsers, id \in TaskIds : AllIdle /\ DeleteTaskCommit(1, u, id)
    \/ RenumberTasks(1)
    \/ RenumberTasksFails(1)
    \/ \E u \in Users, id \in BacklogIds : AllIdle /\ DeleteBacklogCommit(1, u, id)
    \/ RenumberBacklogs(1)
    \/ RenumberBacklogsFails(1)

SpecCommits == Init /\ [][CommitsNext]_vars

\* Two sessions that serve creates, order updates and deletes on the tasks of
\* one (owner, date) and on one owner's backlog, their steps interleaved
TxnNext ==
    \E s \in Sessions :
        \/ BeginCreateTask(s, 1, 1) /\ Within(MaxRows, MaxOrder)'
        \/ CommitCreateTask(s) /\ Within(MaxRows, MaxOrder)'
        \/ \E id \in TaskIds, r \in 1 .. MaxRows : ReadOrderTask(s, 1, id, r)
        \/ CommitOrderTask(s)
        \/ \E id \in TaskIds : DeleteTaskCommit(s, 1, id)
        \/ RenumberTasks(s)
        \/ BeginCreateBacklog(s, 1) /\ Within(MaxRows, MaxOrder)'
        \/ CommitCreateBacklog(s) /\ Within(MaxRows, MaxOrder)'
        \/ \E id \in BacklogIds, r \in 1 .. MaxRows : ReadOrderBacklog(s, 1, id, r)
        \/ CommitOrderBacklog(s)
        \/ \E id \in BacklogIds : DeleteBacklogCommit(s, 1, id)
        \/ RenumberBacklogs(s)

SpecTxn == Init /\ [][TxnNext]_vars

\* One owner's tasks on one date: creates, is_completed updates and deletes,
\* with room for four tasks
ScenarioNext ==
    \/ CreateTask(1, 1, "", "", FALSE) /\ Within(ScenarioRows, ScenarioOrder)'
    \/ \E id \in 1 .. ScenarioRows, c \in BOOLEAN :
          UpdateTask(1, id, [is_completed |-> c]) /\ Within(ScenarioRows, ScenarioOrder)'
    \/ \E id \in 1 .. ScenarioRows : DeleteTask(1, id)

SpecScenario == Init /\ [][ScenarioNext]_vars

\* Owner 1's tasks with room for the orders that repeated is_completed = false
\* updates leave
FlagsNext ==
    \/ \E d \in Dates, c \in BOOLEAN :
          CreateTask(1, d, "", "", c) /\ Within(MaxRows, ScenarioOrder)'
    \/ \E id \in TaskIds, upd \in TaskUpdates :
          UpdateTask(1, id, upd) /\ Within(MaxRows, ScenarioOrder)'
    \/ \E id \in TaskIds : DeleteTask(1, id)

SpecFlags == Init /\ [][FlagsNext]_vars

\* The billing routes and the webhook, with the provider failing or not; the
\* events are about the customer that user 1 has or may get, and about one
\* that no user has
BillingNext ==
    \/ \E event \in Events({1, MaxUids}), signed \in BOOLEAN, ok \in BOOLEAN :
          StripeWebhook(event, signed, ok)
    \/ \E u \in DOMAIN users, ok \in BOOLEAN, st \in SubStatuses :
          GetSubscriptionStatus(u, ok, st)
    \/ \E u \in DOMAIN users, m \in {"subscription", "payment"}, ok_customer \in BOOLEAN, ok_session \in BOOLEAN :
          CreateCheckoutSession(u, m, ok_customer, ok_session)
    \/ \E u \in DOMAIN users, ok \in BOOLEAN : CancelSubscription(u, ok)

SpecBilling == Init /\ [][BillingNext]_vars

\* Users change names, keep tasks, backlog items and notes, open checkouts
\* and cancel; invoices are paid or fail
AccountsNext ==
    \/ \E u \in DOMAIN users, id \in 1 .. MaxUids, body \in UserUpdates :
          UpdateUser(u, id, body)
    \/ \E u \in DOMAIN users : CreateTask(u, 1, "", "", FALSE) /\ Within(AccountRows, MaxOrder)'
    \/ \E u \in DOMAIN users, id \in 1 .. AccountRows, c \in BOOLEAN :
          UpdateTask(u, id, [is_completed |-> c]) /\ Within(AccountRows, MaxOrder)'
    \/ \E u \in DOMAIN users, id \in 1 .. AccountRows : DeleteTask(u, id)
    \/ \E u \in DOMAIN users : CreateBacklog(u, "") /\ Within(AccountRows, MaxOrder)'
    \/ \E u \in DOMAIN users, id \in 1 .. AccountRows : DeleteBacklog(u, id)
    \/ \E u \in DOMAIN users : GetOrCreateNote(u, 1) /\ Within(AccountRows, MaxOrder)'
    \/ \E u \in DOMAIN users, id \in 1 .. AccountRows : UpdateNote(u, id, [entry |-> "w"])
    \/ DeleteEmptyNotes
    \/ \E u \in DOMAIN users, ok \in BOOLEAN : CreateCheckoutSession(u, "subscription", ok, TRUE)
    \/ \E u \in DOMAIN users, ok \in BOOLEAN : CancelSubscription(u, ok)
    \/ \E u \in DOMAIN users : InvoicePaid(u)
    \/ \E u \in DOMAIN users : InvoicePaymentFailed(u)

SpecAccounts == Init /\ [][AccountsNext]_vars

\* date.today() moves on to the next day
Tick ==
    /\ today < MaxToday
    /\ today' = today + 1
    /\ last' = NoResponse
    /\ UNCHANGED <<noteVars, users, tasks, backlogs, nextTaskId, nextBacklogId, sess>>

\* The request body f cut down to the fields F that it sets
FieldsSet(f, F) == [k \in F |-> f[k]]

TaskFields == {"date", "order", "title", "note", "is_completed"}

BacklogFields == {"order", "detail"}

\* The task update requests that set fields of more than one group
ConflictingTaskUpdates ==
    {FieldsSet(f, F) :
        f \in [date : Dates, order : 0 .. 2, title : Words, note : Words,
               is_completed : BOOLEAN],
        F \in {F \in SUBSET TaskFields : Cardinality(MatchedGroups(TaskGroups, F)) > 1}}

ConflictingBacklogUpdates ==
    {FieldsSet(f, BacklogFields) : f \in [order : 0 .. 2, detail : Words]}

\* The task update requests that set title, note or both
TextUpdates == [title : Words] \cup [note : Words] \cup [title : Words, note : Words]

\* Owner 1 fills the store; the days pass
FieldsBase ==
    \/ \E d \in Dates, x \in Words, y \in Words, c \in BOOLEAN :
          CreateTask(1, d, x, y, c) /\ Within(FieldRows, MaxOrder)'
    \/ \E x \in Words : CreateBacklog(1, x) /\ Within(FieldRows, MaxOrder)'
    \/ Tick

\* Update requests that set no field, on the rows the caller has
NoFieldsNext ==
    \/ FieldsBase
    \/ \E t \in tasks : UpdateTask(t.user_id, t.id, EmptyUpdate)
    \/ \E b \in backlogs : UpdateBacklog(b.user_id, b.id, EmptyUpdate)

SpecNoFields == Init /\ [][NoFieldsNext]_vars

\* Update requests that set fields of several groups, on the rows the caller has
ConflictNext ==
    \/ FieldsBase
    \/ \E t \in tasks, upd \in ConflictingTaskUpdates : UpdateTask(t.user_id, t.id, upd)
    \/ \E b \in backlogs, upd \in ConflictingBacklogUpdates :
          UpdateBacklog(b.user_id, b.id, upd)

SpecConflict == Init /\ [][ConflictNext]_vars

\* Title/note updates of tasks, detail and order updates of backlog items, on
\* the rows the caller has
TextNext ==
    \/ FieldsBase
    \/ \E t \in tasks, upd \in TextUpdates : UpdateTask(t.user_id, t.id, upd)
    \/ \E b \in backlogs, x \in Words : UpdateBacklog(b.user_id, b.id, [detail |-> x])
    \/ \E b \in backlogs, r \in 1 .. FieldRows : UpdateBacklog(b.user_id, b.id, [order |-> r])

SpecText == Init /\ [][TextNext]_vars

\* Row id of table S is a row of owner u
Owns(S, u, id) == \E r \in S : r.id = id /\ r.user_id = u

NoteUpdates == {[entry |-> x] : x \in Words} \cup {EmptyUpdate}

\* Both owners fill the store
OwnersBase ==
    \/ \E u \in Users, d \in Dates :
          CreateTask(u, d, "", "", FALSE) /\ Within(MaxRows, MaxOrder)'
    \/ \E u \in Users : CreateBacklog(u, "") /\ Within(MaxRows, MaxOrder)'
    \/ \E u \in Users, x \in Words : CreateNote(u, 1, x) /\ Within(MaxRows, MaxOrder)'

\* Updates and deletes that name a row the caller does not have, sent by
\* callers who pass the subscription gate where there is one
NotFoundNext ==
    \/ OwnersBase
    \/ \E u \in Users, id \in TaskIds, upd \in TaskUpdates :
          ~Owns(tasks, u, id) /\ UpdateTask(u, id, upd)
    \/ \E u \in Users, id \in TaskIds : ~Owns(tasks, u, id) /\ DeleteTask(u, id)
    \/ \E u \in Users, id \in BacklogIds, upd \in BacklogUpdates :
          Subscribed(u) /\ ~Owns(backlogs, u, id) /\ UpdateBacklog(u, id, upd)
    \/ \E u \in Users, id \in BacklogIds :
          Subscribed(u) /\ ~Owns(backlogs, u, id) /\ DeleteBacklog(u, id)
    \/ \E u \in Users, id \in 1 .. MaxRows, upd \in NoteUpdates :
          Subscribed(u) /\ ~Owns(notes, u, id) /\ UpdateNote(u, id, upd)

SpecNotFound == Init /\ [][NotFoundNext]_vars

OwnerTaskUpdates ==
    {[date |-> d] : d \in Dates}
    \cup {[order |-> r] : r \in {1, MaxRows}}
    \cup {[is_completed |-> c] : c \in BOOLEAN}

\* Both owners send every kind of request, on their own rows and on the
\* other's
OwnersNext ==
    \/ OwnersBase
    \/ \E u \in Users : GetOrCreateNote(u, 1) /\ Within(MaxRows, MaxOrder)'
    \/ \E u \in Users, id \in TaskIds, upd \in OwnerTaskUpdates :
          UpdateTask(u, id, upd) /\ Within(MaxRows, MaxOrder)'
    \/ \E u \in Users, id \in TaskIds : DeleteTask(u, id)
    \/ \E u \in Users, id \in BacklogIds, r \in {1, MaxRows} :
          UpdateBacklog(u, id, [order |-> r])
    \/ \E u \in Users, id \in BacklogIds : DeleteBacklog(u, id)
    \/ \E u \in Users, id \in 1 .. MaxRows, x \in Words : UpdateNote(u, id, [entry |-> x])

\* Both owners hold a subscription
InitOwners == Init /\ \A u \in Users : Subscribed(u)

SpecOwners == InitOwners /\ [][OwnersNext]_vars

\* The ranges a list request may name: a bound left out, one date, both
\* dates, and a start after the end
Ranges == (Dates \cup {NoDate}) \X (Dates \cup {NoDate})

\* Both owners write tasks and backlog items and list them
ListsNext ==
    \/ \E u \in Users, d \in Dates :
          CreateTask(u, d, "", "", FALSE) /\ Within(MaxRows, MaxOrder)'
    \/ \E t \in tasks, upd \in OwnerTaskUpdates :
          UpdateTask(t.user_id, t.id, upd) /\ Within(MaxRows, MaxOrder)'
    \/ \E t \in tasks : DeleteTask(t.user_id, t.id)
    \/ \E u \in Users : CreateBacklog(u, "") /\ Within(MaxRows, MaxOrder)'
    \/ \E b \in backlogs, r \in {1, MaxRows} : UpdateBacklog(b.user_id, b.id, [order |-> r])
    \/ \E b \in backlogs : DeleteBacklog(b.user_id, b.id)
    \/ \E u \in Users, r \in Ranges : ListTasks(u, r[1], r[2])
    \/ \E u \in Users : ListBacklogs(u)

SpecLists == Init /\ [][ListsNext]_vars

\* Both owners read, write and clear notes on two dates and hold a task or a
\* backlog item; the purge runs in between
NotesNext ==
    \/ \E u \in Users, d \in Dates : GetOrCreateNote(u, d) /\ Within(MaxRows, MaxOrder)'
    \/ \E u \in Users, d \in Dates, x \in Words :
          CreateNote(u, d, x) /\ Within(MaxRows, MaxOrder)'
    \/ \E u \in Users, id \in 1 .. MaxRows, upd \in NoteUpdates : UpdateNote(u, id, upd)
    \/ \E u \in Users, id \in 1 .. MaxRows : ClearNote(u, id)
    \/ DeleteEmptyNotes
    \/ DeleteEmptyNotesFails
    \/ \E u \in Users : CreateTask(u, 1, "", "", FALSE) /\ Within(MaxRows, MaxOrder)'
    \/ \E u \in Users : CreateBacklog(u, "") /\ Within(MaxRows, MaxOrder)'

SpecNotes == InitOwners /\ [][NotesNext]_vars

\* Two sessions serve note requests of both owners, their lookups and their
\* commits interleaved, while the purge runs
NoteTxnNext ==
    \E s \in Sessions :
        \/ \E u \in Users, d \in Dates :
              ReadGetOrCreateNote(s, u, d) /\ Within(MaxRows, MaxOrder)'
        \/ \E u \in Users, d \in Dates, x \in Words :
              ReadCreateNote(s, u, d, x) /\ Within(MaxRows, MaxOrder)'
        \/ InsertNote(s)
        \/ \E u \in Users, d \in Dates :
              sess[s].pc = "idle" /\ NoteOn(u, d) # {} /\ GetOrCreateNote(u, d)
        \/ \E u \in Users, d \in Dates, x \in Words :
              sess[s].pc = "idle" /\ NoteOn(u, d) # {} /\ CreateNote(u, d, x)
        \/ \E u \in Users, id \in 1 .. MaxRows, x \in Words :
              sess[s].pc = "idle" /\ UpdateNote(u, id, [entry |-> x])
        \/ ReadEmptyNotes(s)
        \/ DeleteLoadedNotes(s)

SpecNoteTxn == InitOwners /\ [][NoteTxnNext]_vars

\* HTTPBearer takes the token of the next request from its Authorization header
Arrive(token) ==
    /\ sess' = [sess EXCEPT ![1] = [pc |-> "arrived", token |-> token]]
    /\ last' = NoResponse
    /\ UNCHANGED <<noteVars, users, tasks, backlogs, nextTaskId, nextBacklogId, today>>

\* A PATCH /notes/{note_id} request arrives: its caller, its path and its body
ArrivePatch(u, id, upd) ==
    /\ sess' = [sess EXCEPT ![1] = [pc |-> "patch", user |-> u, note_id |-> id, body |-> upd]]
    /\ last' = NoResponse
    /\ UNCHANGED <<noteVars, users, tasks, backlogs, nextTaskId, nextBacklogId, today>>

\* Notes are created, and PATCH requests arrive at the router and are served
DispatchNext ==
    \/ \E u \in Users, d \in Dates, x \in Words :
          CreateNote(u, d, x) /\ Within(MaxRows, MaxOrder)'
    \/ \E u \in Users, id \in 1 .. MaxRows, upd \in NoteUpdates : ArrivePatch(u, id, upd)
    \/ sess[1].pc = "patch" /\ PatchNote(sess[1].user, sess[1].note_id, sess[1].body)

SpecDispatch == InitOwners /\ [][DispatchNext]_vars

\* The routes behind get_user, and those behind get_subscribed_user
TaskOps == {"get_tasks", "create_task", "update_task", "delete_task"}
GatedOps == {"get_backlogs", "create_backlog", "update_backlog", "delete_backlog",
             "get_or_create_note", "create_note", "update_note"}

\* Requests of every route arrive with every kind of token, and are served
\* one at a time; users sign up, and subscriptions start and lapse
AuthNext ==
    \/ \E token \in Tokens : Arrive(token)
    \/ sess[1].pc = "arrived" /\ \E op \in TaskOps \cup GatedOps : AuthFails(sess[1].token, op)
    \/ sess[1].pc = "arrived" /\ GetCurrentUser(sess[1].token)
    \/ sess[1].pc = "arrived" /\ \E u \in GetUser(sess[1].token) :
          \/ ListTasks(u, NoDate, NoDate)
          \/ CreateTask(u, 1, "", "", FALSE) /\ Within(AuthRows, MaxOrder)'
          \/ \E id \in 1 .. AuthRows : UpdateTask(u, id, [title |-> "w"])
          \/ \E id \in 1 .. AuthRows : DeleteTask(u, id)
          \/ ListBacklogs(u)
          \/ CreateBacklog(u, "") /\ Within(AuthRows, MaxOrder)'
          \/ \E id \in 1 .. AuthRows : UpdateBacklog(u, id, [detail |-> "w"])
          \/ \E id \in 1 .. AuthRows : DeleteBacklog(u, id)
          \/ GetOrCreateNote(u, 1) /\ Within(AuthRows, MaxOrder)'
          \/ CreateNote(u, 1, "") /\ Within(AuthRows, MaxOrder)'
          \/ \E id \in 1 .. AuthRows : UpdateNote(u, id, [entry |-> "w"])
    \/ \E u \in DOMAIN users : InvoicePaid(u)
    \/ \E u \in DOMAIN users : InvoicePaymentFailed(u)

SpecAuth == Init /\ [][AuthNext]_vars

\* Nobody has signed in yet
InitSignUp ==
    /\ users = <<>>
    /\ tasks = {}
    /\ backlogs = {}
    /\ notes = {}
    /\ nextNoteId = 1
    /\ nextTaskId = 1
    /\ nextBacklogId = 1
    /\ today = 1
    /\ last = NoResponse
    /\ sess = [s \in Sessions |-> Idle]

\* Two sessions serve get_current_user requests, their lookups and their
\* commits interleaved; users open checkouts, subscriptions start and lapse,
\* and users create tasks
SignUpNext ==
    \/ \E s \in Sessions :
          \/ \E token \in Tokens : ReadCurrentUser(s, token)
          \/ InsertUser(s)
          \/ \E token \in Tokens :
                /\ sess[s].pc = "idle"
                /\ ~Verified(token) \/ UsersWith(token.uid) # {}
                /\ GetCurrentUser(token)
    \/ \E u \in DOMAIN users : CreateCheckoutSession(u, "subscription", TRUE, TRUE)
    \/ \E u \in DOMAIN users : InvoicePaid(u)
    \/ \E u \in DOMAIN users : InvoicePaymentFailed(u)
    \/ \E u \in DOMAIN users : CreateTask(u, 1, "", "", FALSE) /\ Within(FieldRows, MaxOrder)'

SpecSignUp == InitSignUp /\ [][SignUpNext]_vars

\* ------------------------------------------------------------------ properties
Min(a, b) == IF a < b THEN a ELSE b

\* The orders of the rows of G are exactly 1 .. N
Dense(G) == {r.order : r \in G} = 1 .. Cardinality(G)

RowOf(S, id) == CHOOSE r \in S : r.id = id

\* The ids of a dense group, listed by order
RankedIds(G) == [i \in 1 .. Cardinality(G) |-> (CHOOSE r \in G : r.order = i).id]

RemoveId(s, id) == SelectSeq(s, LAMBDA x : x # id)

InsertAt(s, pos, x) == SubSeq(s, 1, pos - 1) \o <<x>> \o SubSeq(s, pos, Len(s))

PositionOf(s, x) == CHOOSE i \in 1 .. Len(s) : s[i] = x

\* The list of G after item id is taken out and put back at position min(r, N)
Reinserted(G, id, r) ==
    InsertAt(RemoveId(RankedIds(G), id), Min(r, Cardinality(G)), id)

\* Every member of G has in G2 the order that is its position in the list
MoveAsReinsert(G, G2, id, r) ==
    \A m \in G : \E m2 \in G2 :
        m2.id = m.id /\ m2.order = PositionOf(Reinserted(G, id, r), m.id)

OrderUpdated(resp, op) == resp.op = op /\ resp.mode = "order" /\ resp.status = 200

\* C1: after any sequence of completed task requests, run one at a time from
\* the empty store, the orders of every (owner, date) group of tasks are
\* exactly 1 .. N.
C1_TaskGroupsDense ==
    \A u \in Users, d \in Dates : Dense(TaskGroup(tasks, u, d))

\* C2: after any sequence of completed backlog requests, run one at a time
\* from the empty store, the orders of every owner's backlog items are
\* exactly 1 .. N.
C2_BacklogGroupsDense ==
    \A u \in Users : Dense(BacklogGroup(backlogs, u))

C2_Witness ==
    /\ last.op = "delete_backlog" /\ last.status = 200
    /\ \E u \in Users : Cardinality(BacklogGroup(backlogs, u)) = 2

\* C3: the rank changes of a request are all or nothing: in no committed
\* state of the store, the one between the two commits of a delete and the
\* one a failed second commit leaves included, is a row gone from a group
\* whose remaining rows are not renumbered; a step that takes a row out of a
\* dense group leaves the group dense.
C3_DeleteAllOrNothing ==
    [][/\ \A t \in tasks : t.id \notin Ids(tasks') =>
              (Dense(TaskGroup(tasks, t.user_id, t.date))
                  => Dense(TaskGroup(tasks', t.user_id, t.date)))
       /\ \A b \in backlogs : b.id \notin Ids(backlogs') =>
              (Dense(BacklogGroup(backlogs, b.user_id))
                  => Dense(BacklogGroup(backlogs', b.user_id)))
      ]_vars

\* C4: when two requests that change one group run with their reads and
\* writes interleaved, the orders of the group are exactly 1 .. N once both
\* have committed.
C4_DenseAfterConcurrentRequests ==
    AllIdle => /\ \A u \in Users, d \in Dates : Dense(TaskGroup(tasks, u, d))
               /\ \A u \in Users : Dense(BacklogGroup(backlogs, u))

\* C5: a create gives the new row order 1 and raises by exactly 1 the order
\* of every row that was in its group before, whatever is_completed the
\* request carries; this for tasks, per (owner, date), and for backlog items,
\* per owner.
C5_FrontInsert ==
    [][/\ (last'.op = "create_task" /\ last'.status = 200) =>
            \E n \in tasks' :
                /\ n.id = last'.id /\ n.order = 1
                /\ \A t \in tasks : t.id # n.id
                /\ \A t \in TaskGroup(tasks, n.user_id, n.date) :
                       [t EXCEPT !.order = t.order + 1] \in tasks'
                /\ Cardinality(TaskGroup(tasks', n.user_id, n.date))
                       = Cardinality(TaskGroup(tasks, n.user_id, n.date)) + 1
       /\ (last'.op = "create_backlog" /\ last'.status = 200) =>
            \E n \in backlogs' :
                /\ n.id = last'.id /\ n.order = 1
                /\ \A b \in backlogs : b.id # n.id
                /\ \A b \in BacklogGroup(backlogs, n.user_id) :
                       [b EXCEPT !.order = b.order + 1] \in backlogs'
                /\ Cardinality(BacklogGroup(backlogs', n.user_id))
                       = Cardinality(BacklogGroup(backlogs, n.user_id)) + 1
      ]_vars

C5_Witness ==
    /\ last.op = "create_task" /\ last.status = 200
    /\ \E n \in tasks :
          /\ n.id = last.id /\ n.order = 1 /\ n.is_completed
          /\ Cardinality(TaskGroup(tasks, n.user_id, n.date)) = 3

\* C6: in a dense group an order update with requested rank r >= 1 gives
\* every member the order it has after the item is removed from the list of
\* the group and reinserted at position min(r, N).
C6_MoveIsReinsert ==
    [][/\ OrderUpdated(last', "update_task") =>
            LET t == RowOf(tasks, last'.id)
                G == TaskGroup(tasks, t.user_id, t.date)
            IN  Dense(G) =>
                  MoveAsReinsert(G, TaskGroup(tasks', t.user_id, t.date), t.id, last'.req)
       /\ OrderUpdated(last', "update_backlog") =>
            LET b == RowOf(backlogs, last'.id)
                G == BacklogGroup(backlogs, b.user_id)
            IN  Dense(G) =>
                  MoveAsReinsert(G, BacklogGroup(backlogs', b.user_id), b.id, last'.req)
      ]_vars

\* Tasks 1, 2, 3 created in this order on one date (3 first, then 2, then 1);
\* task 1 moved to order 1: the result is 1, 3, 2.
C6_Witness ==
    /\ OrderUpdated(last, "update_task") /\ last.id = 1 /\ last.req = 1
    /\ \E d \in Dates :
          {<<t.id, t.order>> : t \in TaskGroup(tasks, 1, d)} = {<<1, 1>>, <<3, 2>>, <<2, 3>>}

\* C7: an order update whose requested rank is above the number N of rows of
\* the group succeeds and leaves the row at order N.
C7_Clamp ==
    /\ (last.mode = "order" /\ last.req >= 1) => last.status = 200
    /\ OrderUpdated(last, "update_task") =>
          LET t == RowOf(tasks, last.id)
              N == Cardinality(TaskGroup(tasks, t.user_id, t.date))
          IN  last.req > N => t.order = N
    /\ OrderUpdated(last, "update_backlog") =>
          LET b == RowOf(backlogs, last.id)
              N == Cardinality(BacklogGroup(backlogs, b.user_id))
          IN  last.req > N => b.order = N

C7_Witness ==
    /\ OrderUpdated(last, "update_backlog")
    /\ LET b == RowOf(backlogs, last.id)
       IN  /\ Cardinality(BacklogGroup(backlogs, b.user_id)) = 2
           /\ last.req > 2
           /\ b.order = 2

\* C8: an order update with a requested rank below 1 fails with status 400,
\* 'Order must be 1 or greater', and changes nothing in the store.
C8_OrderBelowOne ==
    [][(last'.mode = "order" /\ last'.req < 1) =>
          /\ last'.status = 400
          /\ last'.detail = "Order must be 1 or greater"
          /\ UNCHANGED <<noteVars, users, tasks, backlogs, nextTaskId, nextBacklogId, today>>
      ]_vars

C8_Witness ==
    /\ last.op = "update_task" /\ last.mode = "order" /\ last.req < 0
    /\ last.status = 400
    /\ \E u \in Users, d \in Dates : Cardinality(TaskGroup(tasks, u, d)) = 2

\* C9: an order update whose requested rank is the current order of the row
\* changes no order, and an order update applied a second time with the same
\* requested rank changes nothing.
C9_MoveIdempotent ==
    [][/\ (OrderUpdated(last', "update_task")
             /\ last'.req = RowOf(tasks, last'.id).order) => tasks' = tasks
       /\ (OrderUpdated(last', "update_backlog")
             /\ last'.req = RowOf(backlogs, last'.id).order) => backlogs' = backlogs
       /\ \A op \in {"update_task", "update_backlog"} :
             (OrderUpdated(last, op) /\ OrderUpdated(last', op)
                 /\ last'.id = last.id /\ last'.req = last.req)
             => (tasks' = tasks /\ backlogs' = backlogs)
      ]_vars

\* C10: a create followed by the delete of the row it made leaves every row
\* that was in the group before the create with the order it had then (the
\* order it has after the create, less the 1 the create added).
C10_CreateDeleteRoundTrip ==
    [][/\ (last.op = "create_task" /\ last.status = 200
             /\ last'.op = "delete_task" /\ last'.status = 200 /\ last'.id = last.id) =>
            LET n == RowOf(tasks, last.id) IN
            \A t \in TaskGroup(tasks, n.user_id, n.date) \ {n} :
                \E t2 \in tasks' : t2.id = t.id /\ t2.order = t.order - 1
       /\ (last.op = "create_backlog" /\ last.status = 200
             /\ last'.op = "delete_backlog" /\ last'.status = 200 /\ last'.id = last.id) =>
            LET n == RowOf(backlogs, last.id) IN
            \A b \in BacklogGroup(backlogs, n.user_id) \ {n} :
                \E b2 \in backlogs' : b2.id = b.id /\ b2.order = b.order - 1
      ]_vars

\* The row m after a row of order k left its group
Compacted(m, k) == [m EXCEPT !.order = IF m.order > k THEN m.order - 1 ELSE m.order]

CompletedUpdated(resp) ==
    resp.op = "update_task" /\ resp.mode = "completed" /\ resp.status = 200

\* C11: a completed delete of a row of order k takes the row out of the
\* store, lowers by exactly 1 the order of every other row of its group whose
\* order was above k and leaves the order of the group's other rows as it
\* was; this for tasks and for backlog items.
C11_DeleteCompacts ==
    [][/\ (last'.op = "delete_task" /\ last'.status = 200) =>
            LET t == RowOf(tasks, last'.id) IN
            /\ t.id \notin Ids(tasks')
            /\ \A m \in TaskGroup(tasks, t.user_id, t.date) \ {t} :
                   Compacted(m, t.order) \in tasks'
       /\ (last'.op = "delete_backlog" /\ last'.status = 200) =>
            LET b == RowOf(backlogs, last'.id) IN
            /\ b.id \notin Ids(backlogs')
            /\ \A m \in BacklogGroup(backlogs, b.user_id) \ {b} :
                   Compacted(m, b.order) \in backlogs'
      ]_vars

\* C12: a task update that carries a date other than the task's date puts
\* the task on the new date at order 1 with title, note and is_completed as
\* they were, raises by 1 the order of every task the owner had on the new
\* date, and on the old date lowers by 1 the order of every task that was
\* above the moved one and keeps the others.
C12_Regroup ==
    [][(last'.op = "update_task" /\ last'.mode = "date" /\ last'.status = 200) =>
          LET t == RowOf(tasks, last'.id)
              t2 == RowOf(tasks', last'.id)
          IN  t2.date # t.date =>
                /\ t2 = [t EXCEPT !.date = t2.date, !.order = 1]
                /\ \A m \in TaskGroup(tasks, t.user_id, t2.date) :
                       [m EXCEPT !.order = m.order + 1] \in tasks'
                /\ \A m \in TaskGroup(tasks, t.user_id, t.date) \ {t} :
                       Compacted(m, t.order) \in tasks'
      ]_vars

\* C13: an is_completed = true update of a task of order k in a group of N
\* sets the flag and gives the task order N, lowers by 1 every other member
\* that was above k and keeps the rest; every member has the order that the
\* order update to N gives it; and of two tasks completed one after the
\* other the second is last and the first next to last.
C13_MarkComplete ==
    [][(CompletedUpdated(last') /\ RowOf(tasks', last'.id).is_completed) =>
          LET t == RowOf(tasks, last'.id)
              G == TaskGroup(tasks, t.user_id, t.date)
              N == Cardinality(G)
          IN  /\ RowOf(tasks', t.id) = [t EXCEPT !.is_completed = TRUE, !.order = N]
              /\ \A m \in G \ {t} : Compacted(m, t.order) \in tasks'
              /\ \A m \in G :
                     RowOf(tasks', m.id).order = RowOf(TaskOrderBranch(t, N), m.id).order
              /\ (CompletedUpdated(last) /\ last.id # t.id /\ last.id \in Ids(G)
                     /\ RowOf(tasks, last.id).is_completed /\ N >= 2)
                 => RowOf(tasks', last.id).order = N - 1
      ]_vars

ScenarioRanks(S) == {<<t.id, t.order>> : t \in TaskGroup(S, 1, 1)}

\* Tasks 1 .. n created one after the other on the empty date: the last
\* created is first
CreatedInTurn(n) == {<<i, n + 1 - i>> : i \in 1 .. n}

\* C15: tasks A, B, C, D (ids 1, 2, 3, 4) created in this order on an empty
\* date have the orders D=1, C=2, B=3, A=4, and marking C complete then
\* gives B=1, A=2, D=3, C=4.
C15_Scenario ==
    [][/\ (last'.op = "create_task" /\ last'.status = 200
             /\ ScenarioRanks(tasks) = CreatedInTurn(nextTaskId - 1))
          => ScenarioRanks(tasks') = CreatedInTurn(nextTaskId)
       /\ (CompletedUpdated(last') /\ last'.id = 3 /\ RowOf(tasks', 3).is_completed
             /\ ScenarioRanks(tasks) = CreatedInTurn(4))
          => ScenarioRanks(tasks') = {<<2, 1>>, <<1, 2>>, <<4, 3>>, <<3, 4>>}
      ]_vars

\* C15 (as the code has it): tasks A, B, C, D (ids 1, 2, 3, 4) created in
\* this order on an empty date have the orders D=1, C=2, B=3, A=4, and
\* marking C complete then gives D=1, B=2, A=3, C=4: D, which was before C,
\* stays first.
C15_ScenarioAsCoded ==
    [][/\ (last'.op = "create_task" /\ last'.status = 200
             /\ ScenarioRanks(tasks) = CreatedInTurn(nextTaskId - 1))
          => ScenarioRanks(tasks') = CreatedInTurn(nextTaskId)
       /\ (CompletedUpdated(last') /\ last'.id = 3 /\ RowOf(tasks', 3).is_completed
             /\ ScenarioRanks(tasks) = CreatedInTurn(4))
          => ScenarioRanks(tasks') = {<<4, 1>>, <<2, 2>>, <<1, 3>>, <<3, 4>>}
      ]_vars

C15_Witness ==
    /\ CompletedUpdated(last) /\ last.id = 3
    /\ nextTaskId = 5
    /\ ScenarioRanks(tasks) = {<<4, 1>>, <<2, 2>>, <<1, 3>>, <<3, 4>>}
    /\ \A t \in tasks : t.is_completed <=> t.id = 3

\* The tables, their id sequences and the users
store == <<users, tasks, backlogs, notes, nextTaskId, nextBacklogId, nextNoteId>>

UpdateOps == {"update_task", "update_backlog"}

\* The messages of the two group checks; both contain 'Only one type of update'
OnlyOneTypeMessages ==
    {"Only one type of update is allowed per request (order, title/note, or is_completed).",
     "Only one type of update is allowed per request (order or detail)."}

\* C16: an update of a task of the caller that sets fields of more than one
\* of the groups {date}, {order}, {title, note}, {is_completed}, or of a
\* backlog item of the caller that sets order and detail, fails with status
\* 400 and a message that contains 'Only one type of update', and changes
\* nothing in the store.
C16_ConflictingUpdate ==
    [][last'.op \in UpdateOps =>
          /\ last'.status = 400
          /\ last'.detail \in OnlyOneTypeMessages
          /\ UNCHANGED store
      ]_vars

\* A request that named another date, order, title, note and flag was turned
\* down and the task is as it was created
C16_Witness ==
    /\ last.op = "update_task" /\ last.mode = "conflict" /\ last.status = 400
    /\ \E t \in tasks : t.title = "w" /\ t.note = "" /\ t.order = 2 /\ ~t.is_completed

\* C17: an update of a task or backlog item of the caller that sets no field
\* succeeds and returns the item as it was; nothing in the store changes.
C17_EmptyUpdate ==
    [][last'.op \in UpdateOps =>
          /\ last'.status = 200
          /\ last'.op = "update_task" => last'.id \in Ids(tasks')
          /\ last'.op = "update_backlog" => last'.id \in Ids(backlogs')
          /\ UNCHANGED store
      ]_vars

\* An empty update of a backlog item stamped on an earlier day: the date stays
C17_Witness ==
    /\ last.op = "update_backlog" /\ last.mode = "empty" /\ last.status = 200
    /\ RowOf(backlogs, last.id).date < today
    /\ tasks # {}

\* C18: a task update of title and/or note succeeds and changes nothing but
\* the title and note of that task; a backlog update of detail changes
\* nothing but the detail of that item and its date, which becomes today; a
\* backlog order update changes no detail and no date.
C18_TextNoRankEffect ==
    [][/\ last'.op = "update_task" =>
            /\ last'.status = 200
            /\ LET t == RowOf(tasks, last'.id)
                   t2 == RowOf(tasks', last'.id)
               IN  /\ t2 = [t EXCEPT !.title = t2.title, !.note = t2.note]
                   /\ tasks' \ {t2} = tasks \ {t}
            /\ UNCHANGED <<users, backlogs, notes, nextTaskId, nextBacklogId, nextNoteId>>
       /\ (last'.op = "update_backlog" /\ last'.mode = "detail") =>
            /\ last'.status = 200
            /\ LET b == RowOf(backlogs, last'.id)
                   b2 == RowOf(backlogs', last'.id)
               IN  /\ b2 = [b EXCEPT !.detail = b2.detail, !.date = today]
                   /\ backlogs' \ {b2} = backlogs \ {b}
            /\ UNCHANGED <<users, tasks, notes, nextTaskId, nextBacklogId, nextNoteId>>
       /\ (last'.op = "update_backlog" /\ last'.mode = "order") =>
            /\ last'.status = 200
            /\ \A b \in backlogs : \E b2 \in backlogs' :
                   b2.id = b.id /\ b2.detail = b.detail /\ b2.date = b.date
      ]_vars

\* The second backlog item got a new detail on the second day; the first
\* keeps its date
C18_Witness ==
    /\ last.op = "update_backlog" /\ last.mode = "detail" /\ last.status = 200
    /\ LET b == RowOf(backlogs, last.id)
       IN  /\ b.order = 2 /\ b.detail = "w" /\ b.date = 2
           /\ \E o \in backlogs : o.id # b.id /\ o.date = 1

\* The message of each handler's failed lookup
NotFoundMessage ==
    [update_task |-> "Task not found", delete_task |-> "Task not found",
     update_backlog |-> "Backlog not found", delete_backlog |-> "Backlog not found",
     update_note |-> "Note not found"]

\* C19: an update or delete of a task or backlog item, or an update of a
\* note, whose id is not the id of a row of the caller (no such row, or a
\* row of another owner) fails with status 404 whatever fields the request
\* sets, and changes nothing in the store.
C19_NotFound ==
    [][last'.op \in DOMAIN NotFoundMessage =>
          /\ last'.status = 404
          /\ last'.detail = NotFoundMessage[last'.op]
          /\ UNCHANGED store
      ]_vars

\* An update of a task was turned down while every task is another owner's
\* or the caller's on other ids, both owners having tasks on one date
C19_Witness ==
    /\ last.op = "update_task" /\ last.status = 404
    /\ \E d \in Dates : Cardinality(TaskGroup(tasks, 1, d)) = 2
                        /\ Cardinality(TaskGroup(tasks, 2, d)) = 1

RowsOf(S, u) == {r \in S : r.user_id = u}

\* The owner of the row that a request that succeeded was about
OwnerOf(S, S2, id) == (CHOOSE r \in S \cup S2 : r.id = id).user_id

\* The dates of the row before and after the request
DatesOf(S, S2, id) == {r.date : r \in {x \in S \cup S2 : x.id = id}}

\* A request that succeeded on table S changed no row of another owner
OthersKept(S, S2, id) ==
    \A u \in Users : u # OwnerOf(S, S2, id) => RowsOf(S2, u) = RowsOf(S, u)

\* The lists of owner u hold rows of u only
ListsOwnRows(u) ==
    /\ \A l \in GetTasks(u, NoDate, NoDate) : \A i \in DOMAIN l : l[i].user_id = u
    /\ \A l \in GetBacklogs(u) : \A i \in DOMAIN l : l[i].user_id = u

\* Owner frame: a request that fails changes nothing; a request of owner u
\* that succeeds changes rows of its own table only and no row of another
\* owner, and a task request changes no task of u on a date other than the
\* date, or the old and new date, of the task concerned; the lists of u hold
\* rows of u only.
OwnerFrame ==
    [][/\ \A u \in Users : ListsOwnRows(u)
       /\ last'.status # 200 => UNCHANGED store
       /\ (last'.status = 200 /\ last'.op \in {"create_task", "update_task", "delete_task"}) =>
            /\ UNCHANGED <<users, backlogs, notes>>
            /\ OthersKept(tasks, tasks', last'.id)
            /\ \A t \in RowsOf(tasks, OwnerOf(tasks, tasks', last'.id)) :
                   (t.id # last'.id /\ t.date \notin DatesOf(tasks, tasks', last'.id))
                   => t \in tasks'
       /\ (last'.status = 200
             /\ last'.op \in {"create_backlog", "update_backlog", "delete_backlog"}) =>
            /\ UNCHANGED <<users, tasks, notes>>
            /\ OthersKept(backlogs, backlogs', last'.id)
       /\ (last'.status = 200
             /\ last'.op \in {"get_or_create_note", "create_note", "update_note"}) =>
            /\ UNCHANGED <<users, tasks, backlogs>>
            /\ OthersKept(notes, notes', last'.id)
      ]_vars

\* C20: the requests of an owner read and change only rows of that owner,
\* and a task request changes orders only in the date group, or the old and
\* new date group, of the task concerned (OwnerFrame); and two runs that
\* differ only in the other owners' data give the owner the same results:
\* the first task an owner creates comes back with the id it has when the
\* other owners hold nothing, whatever they hold.
C20_OwnerIsolation ==
    [][/\ \A u \in Users : ListsOwnRows(u)
       /\ last'.status # 200 => UNCHANGED store
       /\ (last'.status = 200 /\ last'.op \in {"create_task", "update_task", "delete_task"}) =>
            /\ UNCHANGED <<users, backlogs, notes>>
            /\ OthersKept(tasks, tasks', last'.id)
            /\ \A t \in RowsOf(tasks, OwnerOf(tasks, tasks', last'.id)) :
                   (t.id # last'.id /\ t.date \notin DatesOf(tasks, tasks', last'.id))
                   => t \in tasks'
       /\ (last'.status = 200
             /\ last'.op \in {"create_backlog", "update_backlog", "delete_backlog"}) =>
            /\ UNCHANGED <<users, tasks, notes>>
            /\ OthersKept(backlogs, backlogs', last'.id)
       /\ (last'.status = 200
             /\ last'.op \in {"get_or_create_note", "create_note", "update_note"}) =>
            /\ UNCHANGED <<users, tasks, backlogs>>
            /\ OthersKept(notes, notes', last'.id)
       /\ (last'.status = 200 /\ last'.op = "create_task"
             /\ Cardinality(tasks) = nextTaskId - 1
             /\ RowsOf(tasks, OwnerOf(tasks, tasks', last'.id)) = {})
          => last'.id = 1
      ]_vars

\* The rows of a returned list
Returned(rows) == {rows[i] : i \in DOMAIN rows}

\* C21: get_tasks returns exactly the caller's tasks, only those with
\* start <= date <= end when both bounds are given, each once, and of two
\* returned tasks of one date the one returned first has the lower order;
\* get_backlogs returns exactly the caller's backlog items, each once, by
\* increasing order; neither changes the store.
C21_Listing ==
    [][/\ last'.op = "get_tasks" =>
            LET rows == last'.rows
                asked == {t \in tasks :
                             /\ t.user_id = last'.user
                             /\ (last'.start # NoDate /\ last'.end # NoDate)
                                => (last'.start <= t.date /\ t.date <= last'.end)}
            IN  /\ last'.status = 200
                /\ Returned(rows) = asked
                /\ Len(rows) = Cardinality(asked)
                /\ \A i, j \in DOMAIN rows :
                       (i < j /\ rows[i].date = rows[j].date) => rows[i].order < rows[j].order
                /\ UNCHANGED store
       /\ (last'.op = "get_backlogs" /\ last'.status = 200) =>
            LET rows == last'.rows
                asked == {b \in backlogs : b.user_id = last'.user}
            IN  /\ Returned(rows) = asked
                /\ Len(rows) = Cardinality(asked)
                /\ \A i, j \in DOMAIN rows : i < j => rows[i].order < rows[j].order
                /\ UNCHANGED store
      ]_vars

\* The notes of owner u on date d in the notes table S
NotesFor(S, u, d) == {n \in S : n.user_id = u /\ n.date = d}

\* C22: get_or_create_note for an (owner, date) that has a note returns that
\* note and changes nothing; for one that has none it creates exactly one
\* note, with the empty entry, and returns it; two consecutive calls for the
\* same (owner, date) return the same note id and leave exactly one note for
\* the pair.
C22_GetOrCreate ==
    [][last'.op = "get_or_create_note" =>
          LET u == last'.user
              d == last'.date
              had == NotesFor(notes, u, d)
          IN  /\ last'.status = 200
              /\ had # {} => /\ last'.id \in Ids(had)
                             /\ UNCHANGED store
              /\ had = {} => /\ last'.id \notin Ids(notes)
                             /\ notes' = notes \cup {[id |-> last'.id, user_id |-> u,
                                                      date |-> d, entry |-> ""]}
                             /\ UNCHANGED <<users, tasks, backlogs>>
              /\ (last.op = "get_or_create_note" /\ last.user = u /\ last.date = d) =>
                    /\ last'.id = last.id
                    /\ Cardinality(NotesFor(notes', u, d)) = 1
      ]_vars

\* The second of two consecutive calls for a pair returned the note that the
\* first created, while the other owner holds a written note on that date
C22_Witness ==
    /\ last.op = "get_or_create_note" /\ last.mode = "get"
    /\ RowOf(notes, last.id).entry = "" /\ last.id = 2
    /\ \E n \in notes : n.user_id # last.user /\ n.date = last.date /\ n.entry = "w"

\* C24: create_note for an (owner, date) that has a note, made by
\* create_note or by get_or_create_note, fails with status 400 and 'Note
\* already exists for this date', creates no note and leaves the note of the
\* pair as it is.
C24_DuplicateNote ==
    [][(last'.op = "create_note" /\ NotesFor(notes, last'.user, last'.date) # {}) =>
          /\ last'.status = 400
          /\ last'.detail = "Note already exists for this date"
          /\ UNCHANGED store
      ]_vars

\* A create was turned down for a pair whose note get_or_create_note had made
\* and nobody had written; the same owner holds a written note on the other date
C24_Witness ==
    /\ last.op = "create_note" /\ last.status = 400
    /\ \E n \in NotesFor(notes, last.user, last.date) : n.entry = ""
    /\ \E n \in notes : n.user_id = last.user /\ n.date # last.date /\ n.entry = "w"

\* C25: clear_note on a note of the caller sets its entry to the empty
\* string and changes nothing else; a second clear_note of the same note
\* right after the first changes nothing; on an id that is no note of the
\* caller (no such note, or a note of another owner) it fails with status
\* 404 'Note not found' and changes nothing.
C25_ClearNote ==
    [][last'.op = "clear_note" =>
          LET own == {n \in notes : n.id = last'.note_id /\ n.user_id = last'.user}
          IN  /\ own # {} =>
                    /\ last'.status = 200 /\ last'.id = last'.note_id
                    /\ notes' = {IF n \in own THEN [n EXCEPT !.entry = ""] ELSE n : n \in notes}
                    /\ UNCHANGED <<users, tasks, backlogs, nextTaskId, nextBacklogId, nextNoteId>>
                    /\ (last.op = "clear_note" /\ last.status = 200 /\ last.id = last'.id)
                          => UNCHANGED store
              /\ own = {} =>
                    /\ last'.status = 404 /\ last'.detail = "Note not found"
                    /\ UNCHANGED store
      ]_vars

\* A written note was cleared while another written note stays
C25_Witness ==
    /\ last.op = "clear_note" /\ last.status = 200
    /\ RowOf(notes, last.id).entry = ""
    /\ \E n \in notes : n.id # last.id /\ n.entry = "w"
    /\ tasks # {}

\* C26: a run of delete_empty_notes that succeeds removes exactly the notes
\* whose entry is the empty string, of every owner, and leaves the other
\* notes and every task, backlog item and user as they are; a second run
\* right after the first changes nothing.
C26_PurgeEmptyNotes ==
    [][(last'.op = "delete_empty_notes" /\ last'.status = 200) =>
          /\ notes' = {n \in notes : n.entry # ""}
          /\ UNCHANGED <<users, tasks, backlogs, nextTaskId, nextBacklogId, nextNoteId>>
          /\ (last.op = "delete_empty_notes" /\ last.status = 200) => UNCHANGED store
      ]_vars

\* The purge removed the empty notes of both owners and left a written one
\* and a task
C26_Witness ==
    /\ last.op = "delete_empty_notes" /\ last.status = 200
    /\ nextNoteId = 3 /\ Cardinality(notes) = 1
    /\ \A n \in notes : n.entry = "w"
    /\ tasks # {}

\* C23: in every state of the store there is at most one note for each
\* (owner, date), also when get-or-create and create requests for one pair
\* run with their lookups and their inserts interleaved.
C23_NoteUnique ==
    \A u \in Users, d \in Dates : Cardinality(NotesFor(notes, u, d)) <= 1

\* C27: delete_empty_notes, run while update_note and create_note requests
\* are served, deletes no note whose entry is non-empty when it is deleted: a
\* note that was empty when the purge read it and was written before the
\* purge deletes stays, with its new entry.
C27_PurgeKeepsWritten ==
    [][\A n \in notes : n.entry # "" => \E n2 \in notes' : n2.id = n.id]_vars

\* The step serves the request that arrived with the token of session 1
Served == sess' = sess /\ sess[1].pc = "arrived" /\ last'.op \in TaskOps \cup GatedOps

\* The users that the uid of the token belongs to
Callers == {i \in DOMAIN users : users[i].firebase_uid = sess[1].token.uid}

\* C28: a backlog or note request (list or get, create, update, delete) of a
\* user whose is_subscribed is not true fails with status 402 'User is not
\* subscribed' and changes nothing in the store; a task request of that user
\* is served without a subscription check: it never fails with 402, and its
\* list and create requests succeed.
C28_SubscriptionGate ==
    [][(Served /\ sess[1].token.valid) =>
          \A u \in Callers : users[u].is_subscribed # TRUE =>
              /\ last'.op \in GatedOps =>
                    /\ last'.status = 402
                    /\ last'.detail = "User is not subscribed"
                    /\ UNCHANGED store
              /\ last'.op \in TaskOps =>
                    /\ last'.status # 402
                    /\ last'.op = "get_tasks" =>
                          last'.status = 200 /\ Returned(last'.rows) = RowsOf(tasks, u)
                    /\ last'.op = "create_task" =>
                          /\ last'.status = 200
                          /\ \E t \in tasks' \ tasks : t.id = last'.id /\ t.user_id = u
      ]_vars

\* A user whose subscription lapsed, and who holds a backlog item and a task,
\* was refused an update of the backlog item
C28_Witness ==
    /\ sess[1].pc = "arrived" /\ sess[1].token.valid
    /\ last.op = "update_backlog" /\ last.status = 402
    /\ \E u \in Callers : /\ ~users[u].is_subscribed
                          /\ RowsOf(backlogs, u) # {}
                          /\ RowsOf(tasks, u) # {}

\* C29: on the routes behind the gate a request whose token the identity
\* service rejects fails with 401, a request with a verified token of a uid
\* that has no user fails with 404, and a request fails with 402 only when
\* its token is verified, its user exists and is not subscribed and the route
\* is a backlog or note route; so an unsubscribed user with a rejected token
\* gets 401, not 402.  None of the three failures changes the store.
C29_GateFailures ==
    [][Served =>
          /\ ~sess[1].token.valid =>
                /\ last'.status = 401 /\ last'.detail = "Invalid or expired token"
                /\ UNCHANGED store
          /\ (sess[1].token.valid /\ Callers = {}) =>
                /\ last'.status = 404 /\ last'.detail = "User not found"
                /\ UNCHANGED store
          /\ last'.status = 402 =>
                /\ sess[1].token.valid
                /\ Callers # {}
                /\ \A u \in Callers : users[u].is_subscribed # TRUE
                /\ last'.op \in GatedOps
                /\ UNCHANGED store
          /\ (sess[1].token.valid /\ Callers # {}) =>
                /\ last'.status # 401
                /\ last'.detail # "User not found"
      ]_vars

\* An unsubscribed user who holds a note sent a note request with a rejected
\* token and got 401
C29_Witness ==
    /\ sess[1].pc = "arrived" /\ ~sess[1].token.valid
    /\ last.op = "update_note" /\ last.status = 401
    /\ \E u \in Callers : ~users[u].is_subscribed /\ RowsOf(notes, u) # {}

\* The users with uid in the users table S
KnownAs(S, uid) == {i \in DOMAIN S : S[i].firebase_uid = uid}

C37_MarkIncompleteIsMoveToFront ==
    [][(CompletedUpdated(last') /\ ~RowOf(tasks', last'.id).is_completed) =>
          LET t == RowOf(tasks, last'.id)
              G == TaskGroup(tasks, t.user_id, t.date)
          IN  \A m \in G :
                  RowOf(tasks', m.id).order = RowOf(TaskOrderBranch(t, 1), m.id).order
      ]_vars


\* A completed task of G has a smaller order than an incomplete one
Mixed(G) == \E a, b \in G : a.is_completed /\ ~b.is_completed /\ a.order < b.order

Incomplete(G) == {t \in G : ~t.is_completed}

\* C36: the flag does not keep a group in two parts.  A task created with
\* is_completed = true on a date that has an incomplete task, a completed
\* task that an order update sends to order 1, and a completed task that a
\* date change brings to a date that has an incomplete task, each end up
\* before an incomplete task of their group; only the is_completed update
\* places a task by its flag.
C36_NoPartition ==
    [][/\ (last'.op = "create_task" /\ last'.status = 200) =>
            LET t2 == RowOf(tasks', last'.id) IN
            (t2.is_completed /\ Incomplete(TaskGroup(tasks, t2.user_id, t2.date)) # {})
                => /\ t2.order = 1
                   /\ Mixed(TaskGroup(tasks', t2.user_id, t2.date))
       /\ (OrderUpdated(last', "update_task") /\ last'.req = 1) =>
            LET t == RowOf(tasks, last'.id)
                G == TaskGroup(tasks, t.user_id, t.date)
            IN  (t.is_completed /\ \E m \in Incomplete(G) : m.order < t.order)
                    => /\ RowOf(tasks', t.id).order = 1
                       /\ Mixed(TaskGroup(tasks', t.user_id, t.date))
       /\ (last'.op = "update_task" /\ last'.mode = "date" /\ last'.status = 200) =>
            LET t == RowOf(tasks, last'.id)
                t2 == RowOf(tasks', last'.id)
            IN  (t2.date # t.date /\ t.is_completed
                   /\ Incomplete(TaskGroup(tasks, t.user_id, t2.date)) # {})
                    => /\ t2.order = 1
                       /\ Mixed(TaskGroup(tasks', t.user_id, t2.date))
      ]_vars

\* A task has just been marked complete and stands before an incomplete task
\* of its group
C36_Witness ==
    /\ CompletedUpdated(last)
    /\ LET t == RowOf(tasks, last.id)
           G == TaskGroup(tasks, t.user_id, t.date)
       IN  /\ t.is_completed
           /\ \E m \in Incomplete(G) : t.order < m.order


\* A PATCH /notes/{note_id} request has been served
Patched == sess' = sess /\ sess[1].pc = "patch" /\ last'.op \in {"update_note", "clear_note"}

\* C38: every PATCH /notes/{note_id} request is served by update_note and
\* none by clear_note; a request whose body has no entry field leaves every
\* note as it is, and one that has the field gives the caller's note that
\* entry.
C38_NoteDispatch ==
    [][/\ last'.op # "clear_note"
       /\ Patched =>
            /\ last'.op = "update_note"
            /\ last'.user = sess[1].user /\ last'.note_id = sess[1].note_id
            /\ "entry" \notin DOMAIN sess[1].body => notes' = notes
            /\ ("entry" \in DOMAIN sess[1].body /\ last'.status = 200) =>
                   RowOf(notes', last'.id).entry = sess[1].body.entry
      ]_vars

\* A PATCH with an empty body was served on a written note of the caller
C38_Witness ==
    /\ sess[1].pc = "patch" /\ sess[1].body = EmptyUpdate
    /\ last.op = "update_note" /\ last.status = 200
    /\ RowOf(notes, last.id).entry = "w"


\* The subscription id, the status and the flag of a user
Mirror(user) == <<user.stripe_subscription_id, user.subscription_status, user.is_subscribed>>

\* C31: when the webhook handles an event that it handled in the request just
\* before, every user's subscription id, status and is_subscribed stay as the
\* first handling left them, and the second handling issues no cancel of the
\* subscription that is stored; this for each handled type of event and for
\* a checkout in either mode.
C31_WebhookReplay ==
    [][(last'.op = "stripe_webhook" /\ last'.status = 200 /\ last'.again) =>
          /\ \A i \in DOMAIN users : Mirror(users'[i]) = Mirror(users[i])
          /\ \A i \in DOMAIN users, k \in DOMAIN last'.trace :
                ~(/\ last'.trace[k].step = "Subscription.delete"
                  /\ last'.trace[k].id = users[i].stripe_subscription_id)
      ]_vars

\* A checkout event in subscription mode that replaced the subscription of
\* its customer has been handled a second time
C31_Witness ==
    /\ last.op = "stripe_webhook" /\ last.status = 200 /\ last.again
    /\ last.event.type = "checkout.session.completed" /\ last.event.mode = "subscription"
    /\ last.user = 1 /\ last.event.subscription = 2
    /\ users[1].stripe_subscription_id = 2


\* A call of the provider that the request made failed
ProviderFailed(resp) ==
    "trace" \in DOMAIN resp /\ \E k \in DOMAIN resp.trace : ~resp.trace[k].ok

\* C32: a request during which a call of the billing provider fails ends
\* with status 502, whichever route serves it: the subscription-status
\* query, the checkout-session creation, the cancel-subscription request and
\* the webhook that cancels the old subscription of a checkout.
C32_ProviderFailureSurfaced ==
    [][ProviderFailed(last') => last'.status = 502]_vars


\* The request issued a cancel of subscription id to the provider
CancelIssued(trace, id) ==
    \E k \in DOMAIN trace : trace[k].step = "Subscription.delete" /\ trace[k].id = id

\* The request issued a cancel of subscription id before it committed
CancelBeforeStore(trace, id) ==
    \E j, k \in DOMAIN trace :
        /\ j < k
        /\ trace[j].step = "Subscription.delete" /\ trace[j].id = id
        /\ trace[k].step = "commit"

NoCancel(trace) == \A k \in DOMAIN trace : trace[k].step # "Subscription.delete"

\* C34: a checkout.session.completed event handled for a user.  In
\* subscription mode with subscription id s: if the stored id is some other
\* s2, a cancel of s2 is issued before s is stored, and otherwise no cancel
\* is issued; s is stored and the status is active.  In payment mode a
\* cancel of the stored subscription, if there is one, is issued, the stored
\* id is cleared and the status is lifetime.  In each case is_subscribed is
\* true afterwards.
C34_RetireOldSubscription ==
    [][(/\ last'.op = "stripe_webhook" /\ last'.status = 200 /\ last'.user # 0
        /\ last'.event.type = "checkout.session.completed") =>
          LET u == last'.user
              s == last'.event.subscription
              stored == users[u].stripe_subscription_id
              after == users'[u]
          IN  /\ (last'.event.mode = "subscription" /\ s # NoId) =>
                    /\ (stored # NoId /\ stored # s) =>
                          /\ CancelBeforeStore(last'.trace, stored)
                          /\ ~CancelIssued(last'.trace, s)
                    /\ (stored = NoId \/ stored = s) => NoCancel(last'.trace)
                    /\ after.stripe_subscription_id = s
                    /\ after.subscription_status = "active"
                    /\ after.is_subscribed
              /\ last'.event.mode = "payment" =>
                    /\ stored # NoId => CancelBeforeStore(last'.trace, stored)
                    /\ stored = NoId => NoCancel(last'.trace)
                    /\ after.stripe_subscription_id = NoId
                    /\ after.subscription_status = "lifetime"
                    /\ after.is_subscribed
      ]_vars

\* A checkout in subscription mode replaced subscription 1 of user 1 by
\* subscription 2, and the cancel of subscription 1 was issued
C34_Witness ==
    /\ last.op = "stripe_webhook" /\ last.status = 200 /\ last.user = 1
    /\ last.event.type = "checkout.session.completed" /\ last.event.mode = "subscription"
    /\ last.event.subscription = 2
    /\ CancelIssued(last.trace, 1)
    /\ users[1].stripe_subscription_id = 2


\* C35 as the claim has it: cancel_subscription for a user with no stored
\* subscription id fails with status 400 and changes nothing, whoever the
\* user is; when the provider call fails it fails with 502 and changes
\* nothing; when it succeeds only subscription_status changes, to 'canceled'.
C35_CancelAsClaimed ==
    [][last'.op = "cancel_subscription" =>
          LET u == last'.user IN
          /\ users[u].stripe_subscription_id = NoId =>
                last'.status = 400 /\ UNCHANGED store
          /\ ProviderFailed(last') => last'.status = 502 /\ UNCHANGED store
          /\ last'.status = 200 =>
                /\ users' = [users EXCEPT ![u].subscription_status = "canceled"]
                /\ users'[u].is_subscribed = TRUE
      ]_vars

\* C35: cancel_subscription for a caller whose is_subscribed is true.  With
\* no stored subscription id it fails with status 400 'No active
\* subscription to cancel.' and changes nothing; with one, it succeeds or
\* fails with 502: when the provider call fails it fails with 502 and
\* changes nothing, and when it succeeds only subscription_status changes,
\* to 'canceled', so that the user still passes the gate.  For a caller whose
\* is_subscribed is not true it fails with 402 and changes nothing.
C35_CancelSubscription ==
    [][last'.op = "cancel_subscription" =>
          LET u == last'.user IN
          /\ users[u].is_subscribed # TRUE => last'.status = 402 /\ UNCHANGED store
          /\ (users[u].is_subscribed = TRUE /\ users[u].stripe_subscription_id = NoId) =>
                /\ last'.status = 400 /\ last'.detail = "No active subscription to cancel."
                /\ UNCHANGED store
          /\ (users[u].is_subscribed = TRUE /\ users[u].stripe_subscription_id # NoId) =>
                /\ last'.status \in {200, 502}
                /\ last'.status = 502 <=> ProviderFailed(last')
                /\ last'.status = 502 => UNCHANGED store
                /\ last'.status = 200 =>
                      /\ users' = [users EXCEPT ![u].subscription_status = "canceled"]
                      /\ users'[u].is_subscribed = TRUE
                      /\ UNCHANGED <<tasks, backlogs, notes>>
      ]_vars

\* The cancel of user 1's subscription failed at the provider, and user 1
\* is subscribed with the status 'active' as before
C35_Witness ==
    /\ last.op = "cancel_subscription" /\ last.status = 502 /\ last.user = 1
    /\ ProviderFailed(last)
    /\ users[1].is_subscribed /\ users[1].subscription_status = "active"
    /\ users[1].stripe_subscription_id # NoId


\* C39: a user whose subscription_status is 'lifetime' (set by a checkout in
\* payment mode) keeps that status and is_subscribed = true through every
\* webhook event, and get_subscription_status reports is_subscribed = true
\* for such a user.
C39_LifetimePermanent ==
    [][/\ last'.op = "stripe_webhook" =>
            \A i \in DOMAIN users :
                users[i].subscription_status = "lifetime" =>
                    /\ users'[i].subscription_status = "lifetime"
                    /\ users'[i].is_subscribed = TRUE
       /\ (last'.op = "get_subscription_status" /\ last'.status = 200
             /\ users[last'.user].subscription_status = "lifetime") =>
            last'.report.is_subscribed = TRUE
      ]_vars


\* C40: an update_user request changes no user but the caller: when it
\* changes the users table, the user_id of its path is the caller's id, and
\* every other user is as before.
C40_UpdateScopedToCaller ==
    [][last'.op = "update_user" =>
          /\ users' # users => last'.user_id = last'.user
          /\ \A i \in DOMAIN users : i # last'.user => users'[i] = users[i]
      ]_vars


\* The billing fields of a user
BillingFields(user) ==
    <<user.stripe_customer_id, user.stripe_subscription_id, user.subscription_status,
      user.is_subscribed>>

\* The routes that may write billing fields
BillingOps == {"stripe_webhook", "create_checkout_session", "cancel_subscription"}

\* C33: a step of any route other than the webhook, the checkout-session
\* creation and the cancel-subscription request leaves the customer id, the
\* subscription id, the subscription status and is_subscribed of every user
\* as they were, and an update_user request whose body names is_subscribed
\* is refused.
C33_BillingFrame ==
    [][/\ last'.op \notin BillingOps =>
            \A i \in DOMAIN users : BillingFields(users'[i]) = BillingFields(users[i])
       /\ (last'.op = "update_user" /\ "is_subscribed" \in DOMAIN last'.body) =>
            last'.status # 200
      ]_vars

====
